---- MODULE Spec2Model ----
(***************************************************************************)
(* PMV matching subsystem of xbvr-pmv: the per-file match orchestrator     *)
(* (pkg/tasks/pmv_match.go MatchPMVFile), the batch scheduler              *)
(* (MatchPMVUnmatchedFiles), the background trigger with its run lock      *)
(* (RunPMVMatchUnmatchedTask) and the HTTP handlers that call them.        *)
(*                                                                         *)
(* Text is modelled at token level: a query or a title is a sequence of    *)
(* lowercase tokens, a filename is a sequence of "_-_"-separated segments, *)
(* each a sequence of tokens.  Confidence (a float64 in the source) is     *)
(* kept exactly as an integer number of 600ths, so 0.15 is 90, 0.7 is 420, *)
(* 0.2 is 120 and 1 is 600; 420 * k \div n is exact for n in 1..7.         *)
(***************************************************************************)
EXTENDS Integers, Sequences, FiniteSets, TLC

VARIABLES
    files,      \* file registry: file id -> models.File row
    scenes,     \* catalog store: scene_id -> models.Scene row
    call,       \* the single-file request (pmvMatch) in progress
    twin,       \* what a dry run of the same request on the same answers returns
    calls,      \* number of single-file requests made
    site,       \* what the remote site answers to the requests of that request
    req,        \* the PMVMatchBatchRequest of the batch run
    bpc,        \* MatchPMVUnmatchedFiles: "start", "collect" (range results), "done"
    bfiles,     \* the files it selected, in query order
    feeder,     \* the feeder goroutine: next index to send, jobs / results closed
    wk,         \* the worker goroutines
    results,    \* the buffered channel results
    batchOut,   \* the PMVMatchBatchResult out being built
    lock,       \* the "pmv-match" lock of models.CheckLock / CreateLock / RemoveLock
    trig,       \* the batch triggers (background task or synchronous endpoint)
    probe       \* one function of the package, its arguments and what it returned

dbVars == <<files, scenes>>
callVars == <<call, twin, calls, site>>
batchVars == <<req, bpc, bfiles, feeder, wk, results, batchOut>>
lockVars == <<lock, trig>>
vars == <<files, scenes, call, twin, calls, site, req, bpc, bfiles, feeder, wk, results, batchOut, lock, trig, probe>>

\* ------------------------------------------------------------------ bounds
MaxFiles == 2
MaxCalls == 2
MaxTriggers == 2
MaxVariants == 2
MaxLimit == 2
MaxSlashes == 2
MaxLinks == 2
MaxRanked == 3
MaxTokens == 2

\* --------------------------------------------------------- program constants
pmvMatchCandidateLimit == 5
pmvAutoLinkThreshold == 510

Nil == [nil |-> TRUE]
NoScene == <<>>
NoErr == ""

\* ----------------------------------------------------------- text helpers
Range(s) == {s[i] : i \in DOMAIN s}

RECURSIVE Flatten(_)
Flatten(segs) == IF segs = <<>> THEN <<>> ELSE Head(segs) \o Flatten(Tail(segs))

RECURSIVE Filter(_, _)
Filter(s, keep) ==
    IF s = <<>> THEN <<>>
    ELSE (IF Head(s) \in keep THEN <<Head(s)>> ELSE <<>>) \o Filter(Tail(s), keep)

DropFirst(s, n) == SubSeq(s, n + 1, Len(s))

\* The characters of each token of the model's alphabet.
Chars(tok) ==
    CASE tok = "aa" -> <<"a", "a">>
      [] tok = "bb" -> <<"b", "b">>
      [] tok = "cc" -> <<"c", "c">>
      [] tok = "dd" -> <<"d", "d">>
      [] tok = "ch" -> <<"c", "h">>
      [] tok = "u" -> <<"u">>
      [] tok = "4k" -> <<"4", "k">>
      [] tok = "2025" -> <<"2", "0", "2", "5">>
      [] tok = "remaster" -> <<"r", "e", "m", "a", "s", "t", "e", "r">>
      [] tok = "1700000000000" -> <<"1", "7", "0", "0", "0", "0", "0", "0", "0", "0", "0", "0", "0">>
      [] tok = "abcdef12" -> <<"a", "b", "c", "d", "e", "f", "1", "2">>
      [] OTHER -> <<tok>>

Digits == {"0", "1", "2", "3", "4", "5", "6", "7", "8", "9"}
Vowels == {"a", "e", "i", "o", "u"}

CountIn(s, set) == Cardinality({i \in DOMAIN s : s[i] \in set})

isLikelyNoiseToken(tok) ==
    LET cs == Chars(tok)
        n == Len(cs)
        digits == CountIn(cs, Digits)
        letters == n - digits
        vowels == CountIn(cs, Vowels)
    IN  IF n = 0 THEN FALSE
        ELSE IF digits = n /\ n >= 4 THEN TRUE
        ELSE IF n >= 10 /\ digits > 0 /\ letters > 0 THEN TRUE
        ELSE IF n >= 8 /\ digits >= 3 /\ letters >= 3
                /\ (vowels = 0 \/ digits * 100 >= 35 * n) THEN TRUE
        ELSE FALSE

skipTokens ==
    {"1080p", "1440p", "2160p", "4k", "5k", "6k", "8k",
     "fps", "60fps", "30fps", "4k60",
     "sbs", "tb", "lr", "vr",
     "mp4", "mkv", "avi", "mov", "wmv",
     "uhd", "hd", "fullhd", "hq",
     "h264", "h265", "x264", "x265", "264", "265",
     "2880p", "4320p", "upscale"}

\* normalizePMVQuery on a filename given, without its extension and in lower
\* case, as its "_-_"-separated segments, each a sequence of tokens: words,
\* the apostrophe, and runs of other characters ("!!", and "_" and "-" for a
\* separator character that stands next to the following token or ends the
\* name). It drops the exporter suffix, keeps what is right of the first
\* "_-_" when that is not blank, turns the separators and every character
\* outside [a-z0-9\s'] into spaces, drops the skip tokens and the noise
\* tokens, and falls back to the unfiltered tokens when the filter leaves
\* nothing.
Symbols == {"!!", "_", "-"}

\* \d{10,} and [a-z0-9]{6,} of the exporter suffix.
isEpoch(tok) == Len(Chars(tok)) >= 10 /\ CountIn(Chars(tok), Digits) = Len(Chars(tok))

isRandomID(tok) == tok \notin Symbols \cup {"'"} /\ Len(Chars(tok)) >= 6

\* The exporter suffix is the last two tokens of the name, after a separator.
hasExportSuffix(filename, last, n) ==
    /\ n >= 2 /\ isEpoch(last[n - 1]) /\ isRandomID(last[n])
    /\ (n >= 3 \/ Len(filename) >= 2)

\* The name without the suffix and the separator character before it: a
\* separator of the segment, or the last character of the "_-_" before it,
\* whose "_-" then stays at the end of the segment before.
withoutExportSuffix(filename, last, n) ==
    IF n >= 3
    THEN [filename EXCEPT ![Len(filename)] =
            SubSeq(last, 1, IF last[n - 2] \in {"_", "-"} THEN n - 3 ELSE n - 2)]
    ELSE [SubSeq(filename, 1, Len(filename) - 1) EXCEPT ![Len(filename) - 1] = @ \o <<"_", "-">>]

stripExportSuffix(filename) ==
    IF hasExportSuffix(filename, filename[Len(filename)], Len(filename[Len(filename)]))
    THEN withoutExportSuffix(filename, filename[Len(filename)], Len(filename[Len(filename)]))
    ELSE filename

\* The token filter of normalizePMVQuery on the cleaned name.
filterTokens(name) ==
    Filter(name, {t \in Range(name) : t \notin skipTokens /\ ~isLikelyNoiseToken(t)})

\* Its last lines: out, or the unfiltered tokens when out is empty.
joinTokens(name, out) ==
    IF name = <<>> THEN <<>> ELSE IF out = <<>> THEN name ELSE out

\* Its "_-_" rule: what is right of the first separator when not blank.
stripChannel(filename, right) ==
    IF Len(filename) >= 2 /\ right # <<>> THEN right ELSE Flatten(filename)

\* Its replacements of "_", ".", "-", "(", ")" and of [^a-z0-9\s']+ by a space.
cleanName(name) == Filter(name, {t \in Range(name) : t \notin Symbols})

normalizeName(name) == joinTokens(cleanName(name), filterTokens(cleanName(name)))

normalizeStripped(filename) == normalizeName(stripChannel(filename, Flatten(Tail(filename))))

normalizePMVQuery(filename) == normalizeStripped(stripExportSuffix(filename))

stripPMVSearchNoiseSkip ==
    {"1080p", "1440p", "2160p", "2880p", "4320p", "4k", "8k",
     "60fps", "30fps", "fps",
     "h264", "h265", "x264", "x265", "264", "265",
     "sbs", "tb", "lr", "vr",
     "upscale", "remaster"}

stripPMVSearchNoise(tokens) ==
    Filter(tokens, {t \in Range(tokens) : t \notin stripPMVSearchNoiseSkip})

\* The closure add() of buildPMVSearchQueries: append q unless it is empty or
\* was added before.
add(out, q) == IF q = <<>> \/ q \in Range(out) THEN out ELSE Append(out, q)

\* if cond { add(q) }
addIf(cond, out, q) == IF cond THEN add(out, q) ELSE out

\* The variants of buildPMVSearchQueries that come from the base query.
baseVariants(baseQuery, n, cleaned) ==
    addIf(Len(cleaned) >= 2,
      addIf(Len(cleaned) > 0,
        addIf(n >= 4,
          addIf(n >= 3,
            addIf(n >= 2,
              add(<<>>, baseQuery),
              DropFirst(baseQuery, 1)),
            SubSeq(baseQuery, 1, n - 1)),
          SubSeq(baseQuery, 2, n - 1)),
        cleaned),
      DropFirst(cleaned, 1))

\* Those that come from the raw filename split at "_-_".
rawVariants(out, parts) ==
    addIf(Len(parts) >= 3,
      addIf(Len(parts) >= 2, out, normalizeName(Flatten(DropFirst(parts, 1)))),
      normalizeName(Flatten(DropFirst(parts, 2))))

buildPMVSearchQueries(filename, baseQuery) ==
    rawVariants(baseVariants(baseQuery, Len(baseQuery), stripPMVSearchNoise(baseQuery)), filename)

\* ------------------------------------------------------ the remote catalog
\* scrape.PMVHavenCandidate
CandA == [ID |-> "a", Title |-> <<"aa", "bb", "cc">>, SceneURL |-> "u1", ThumbnailURL |-> ""]
CandB == [ID |-> "b", Title |-> <<"bb", "dd">>, SceneURL |-> "u2", ThumbnailURL |-> "t2"]

SceneURLs == {"u1", "u2"}

\* What ParsePMVHavenSearchHTML returns for the bodies the site may answer with.
ParsedLists == {<<>>, <<CandB, CandA>>}

\* One HTTP GET of a search URL: transport failure or non-2xx status (fail),
\* or a body with its parsed candidates.
SearchFetches ==
    {[fail |-> TRUE, err |-> "pmvhaven search failed", parsed |-> <<>>]}
        \cup {[fail |-> FALSE, err |-> NoErr, parsed |-> l] : l \in ParsedLists}

\* One HTTP GET of a detail page: failure, or the thumbnail and title parsed
\* from it ("" and <<>> when the page has none).
EnrichFetches ==
    {[fail |-> TRUE, thumb |-> "", title |-> <<>>],
     [fail |-> FALSE, thumb |-> "", title |-> <<>>],
     [fail |-> FALSE, thumb |-> "t9", title |-> <<"bb", "cc">>]}

\* The merge loop of SearchPMVHaven over one parsed page.
RECURSIVE mergeCandidates(_, _, _)
mergeCandidates(allCandidates, candidates, limit) ==
    IF candidates = <<>> \/ Len(allCandidates) >= limit THEN allCandidates
    ELSE mergeCandidates(
             IF \E k \in DOMAIN allCandidates :
                    allCandidates[k].SceneURL = Head(candidates).SceneURL
             THEN allCandidates
             ELSE Append(allCandidates, Head(candidates)),
             Tail(candidates), limit)

\* The loop of SearchPMVHaven over its search URLs; fetches[i] is the
\* site's answer to the i-th URL.
RECURSIVE searchURLLoop(_, _, _, _)
searchURLLoop(fetches, limit, allCandidates, lastErr) ==
    IF fetches = <<>> THEN [all |-> allCandidates, lastErr |-> lastErr]
    ELSE searchURLLoop(
             IF /\ ~Head(fetches).fail
                /\ Len(mergeCandidates(allCandidates, Head(fetches).parsed, limit)) >= limit
             THEN <<>> ELSE Tail(fetches),
             limit,
             IF Head(fetches).fail THEN allCandidates
             ELSE mergeCandidates(allCandidates, Head(fetches).parsed, limit),
             IF Head(fetches).fail THEN Head(fetches).err ELSE lastErr)

searchResultErrorFirst(r) ==
    IF r.lastErr # NoErr THEN [candidates |-> <<>>, err |-> r.lastErr]
    ELSE [candidates |-> r.all, err |-> NoErr]

\* The return statements of SearchPMVHaven.
searchResult(r) ==
    IF Len(r.all) > 0 THEN [candidates |-> r.all, err |-> NoErr]
    ELSE IF r.lastErr # NoErr THEN [candidates |-> <<>>, err |-> r.lastErr]
    ELSE [candidates |-> <<>>, err |-> NoErr]

SearchPMVHaven(fetches, limit) == searchResult(searchURLLoop(fetches, limit, <<>>, NoErr))

EnrichPMVHavenCandidateThumbnail(c, fetch) ==
    IF c.SceneURL = "" THEN [candidate |-> c, err |-> "invalid scene url"]
    ELSE IF fetch.fail THEN [candidate |-> c, err |-> "pmvhaven scene fetch failed"]
    ELSE LET c1 == IF fetch.thumb # "" THEN [c EXCEPT !.ThumbnailURL = fetch.thumb] ELSE c
             c2 == IF fetch.title # <<>> THEN [c1 EXCEPT !.Title = fetch.title] ELSE c1
         IN  [candidate |-> c2, err |-> NoErr]

\* ----------------------------------------------------------- scorer/ranker
\* Lexical order of the tokens of the model's alphabet.
Alphabet == <<"2025", "4k", "aa", "bb", "cc", "ch", "dd", "remaster", "u">>
TokOrd(t) == CHOOSE i \in DOMAIN Alphabet : Alphabet[i] = t

\* a < b for titles as Go compares strings.
RECURSIVE TitleLess(_, _)
TitleLess(a, b) ==
    IF b = <<>> THEN FALSE
    ELSE IF a = <<>> THEN TRUE
    ELSE IF Head(a) = Head(b) THEN TitleLess(Tail(a), Tail(b))
    ELSE TokOrd(Head(a)) < TokOrd(Head(b))

\* strings.Contains on token sequences.
Contains(s, sub) ==
    \E i \in 0..(Len(s) - Len(sub)) : SubSeq(s, i + 1, i + Len(sub)) = sub

tokenSet(s) == {t \in Range(s) : Len(Chars(t)) >= 2}

\* In 600ths.
overlapScore(a, b) ==
    IF Cardinality(a) = 0 \/ Cardinality(b) = 0 THEN 0
    ELSE (600 * Cardinality(a \cap b)) \div Cardinality(a)

clampScore(v) == IF v < 0 THEN 0 ELSE IF v > 600 THEN 600 ELSE v

\* Fault injection for RankingOrder: ties in confidence are left as they are.
lessByConfidence(ci, cj) == ci.Confidence > cj.Confidence

less(ci, cj) ==
    IF ci.Confidence = cj.Confidence THEN TitleLess(ci.Title, cj.Title)
    ELSE ci.Confidence > cj.Confidence

\* sort.Slice on at most pmvMatchCandidateLimit elements is the insertion
\* sort of the Go runtime (slices of at most 12 elements).
RECURSIVE insertionSortInner(_, _)
insertionSortInner(c, j) ==
    IF j > 1 /\ less(c[j], c[j - 1])
    THEN insertionSortInner([c EXCEPT ![j] = c[j - 1], ![j - 1] = c[j]], j - 1)
    ELSE c

RECURSIVE insertionSort(_, _)
insertionSort(c, i) ==
    IF i > Len(c) THEN c ELSE insertionSort(insertionSortInner(c, i), i + 1)

\* Fault injection for RankingStable: a pass that compares elements two
\* apart, as a sort for longer slices makes, before the insertion sort.
sortCandidatesGapPass(c) ==
    insertionSort(IF Len(c) >= 3 /\ less(c[3], c[1])
                  THEN [c EXCEPT ![1] = c[3], ![3] = c[1]] ELSE c,
                  2)

sortCandidates(c) == insertionSort(c, 2)

scorePMVCandidatesByText(query, candidates) ==
    LET queryTokens == tokenSet(query)
        scoreOf(c) ==
            LET overlap == overlapScore(queryTokens, tokenSet(c.Title))
                containsBonus == IF query # <<>> /\ Contains(c.Title, query) THEN 120 ELSE 0
            IN  [Rank |-> 0, PMVID |-> c.ID, Title |-> c.Title, SceneURL |-> c.SceneURL,
                 ThumbnailURL |-> c.ThumbnailURL,
                 Confidence |-> clampScore(90 + (overlap * 7) \div 10 + containsBonus)]
    IN  sortCandidates([i \in DOMAIN candidates |-> scoreOf(candidates[i])])

\* ------------------------------------------------- file registry and catalog
\* models.File rows by id and models.Scene rows by scene_id.  A file with
\* SceneID 0 is unmatched; OtherScene is a catalog entry that files matched
\* before this subsystem ran are linked to.
OtherScene == <<"other", 0>>

FileIDs == 1..MaxFiles

\* The filenames of the library: "aa_bb_cc.mp4", "ch_-_4k_cc.mp4", ".mp4"
\* and "4k.mp4", by file id.
FilenameOf(id) ==
    CASE id % 4 = 1 -> << <<"aa", "bb", "cc">> >>
      [] id % 4 = 2 -> << <<"ch">>, <<"4k", "cc">> >>
      [] id % 4 = 3 -> << <<>> >>
      [] OTHER -> << <<"4k">> >>

InitScenes ==
    (OtherScene :> [ID |-> 1, Title |-> <<"dd">>, SceneURL |-> "u0", Cover |-> "",
                    Filenames |-> <<>>])

InitFiles ==
    {[id \in FileIDs |-> [ID |-> id, Filename |-> FilenameOf(id), SceneID |-> link[id],
                          Type |-> "video", VolumeID |-> 1 + (id % 2)]]
       : link \in [FileIDs -> {0, 1}]}

\* Fault injection for CatalogEntryPerFile: one identifier for every file.
buildPMVCustomSceneIDShared(fileID) == <<"custom-pmv", 0>>

buildPMVCustomSceneID(fileID) == <<"custom-pmv", fileID>>

MaxSceneKey(catalog) ==
    CHOOSE m \in {catalog[k].ID : k \in DOMAIN catalog} \cup {0} :
        \A k \in DOMAIN catalog : catalog[k].ID <= m

\* models.SceneCreateUpdateFromExternal: create the entry, or update its
\* title, URL and cover.
SceneCreateUpdateFromExternal(catalog, ext) ==
    IF ext.SceneID \in DOMAIN catalog
    THEN [catalog EXCEPT ![ext.SceneID] =
             [@ EXCEPT !.Title = ext.Title, !.SceneURL = ext.HomepageURL,
                       !.Cover = IF ext.Covers # <<>> THEN ext.Covers[1] ELSE @]]
    ELSE catalog @@ (ext.SceneID :>
             [ID |-> MaxSceneKey(catalog) + 1, Title |-> ext.Title, SceneURL |-> ext.HomepageURL,
              Cover |-> IF ext.Covers # <<>> THEN ext.Covers[1] ELSE "",
              Filenames |-> ext.Filenames])

\* The points at which a store call of applyPMVMatch can fail: 0 none,
\* 1 SceneCreateUpdateFromExternal, 2 scene.GetIfExist, 3 the created_at
\* update of a newly created entry, 4 file.Save.
StoreFailures == 0..4

\* The scene applyPMVMatch hands to SceneCreateUpdateFromExternal.
externalScene(file, candidate) ==
    [SceneID |-> buildPMVCustomSceneID(file.ID), Title |-> candidate.Title,
     HomepageURL |-> candidate.SceneURL,
     Filenames |-> <<file.Filename>>,
     Covers |-> IF candidate.ThumbnailURL # "" THEN <<candidate.ThumbnailURL>> ELSE <<>>]

\* applyPMVMatch after SceneCreateUpdateFromExternal left the catalog as
\* scenes1; failAt is where the store fails.
applyStored(db, file, sceneID, scenes1, failAt) ==
    IF failAt = 1
    THEN [files |-> db.files, scenes |-> db.scenes, sceneID |-> NoScene, err |-> "store failure"]
    ELSE IF failAt = 2 \/ (failAt = 3 /\ sceneID \notin DOMAIN db.scenes) \/ failAt = 4
    THEN [files |-> db.files, scenes |-> scenes1, sceneID |-> NoScene, err |-> "store failure"]
    ELSE [files |-> [db.files EXCEPT ![file.ID] = [file EXCEPT !.SceneID = scenes1[sceneID].ID]],
          scenes |-> scenes1, sceneID |-> sceneID, err |-> NoErr]

\* applyPMVMatch on the store db = [files, scenes].
applyPMVMatch(db, file, candidate, failAt) ==
    applyStored(db, file, buildPMVCustomSceneID(file.ID),
                SceneCreateUpdateFromExternal(db.scenes, externalScene(file, candidate)),
                failAt)

\* ------------------------------------------------------- match orchestrator
\* Fault injection for ValidationRejects: the already-matched check is missing.
validateFileNoConflict(fileID, dbFiles) ==
    IF fileID = 0 THEN 400
    ELSE IF fileID \notin DOMAIN dbFiles THEN 404
    ELSE 0

\* The validation of MatchPMVFile: the status it fails with, 0 when the file
\* passes.
validateFile(fileID, dbFiles) ==
    IF fileID = 0 THEN 400
    ELSE IF fileID \notin DOMAIN dbFiles THEN 404
    ELSE IF dbFiles[fileID].SceneID # 0 THEN 409
    ELSE 0

validateError(status) ==
    CASE status = 400 -> "file_id is required"
      [] status = 404 -> "file_id was not found"
      [] status = 409 -> "file_id is already matched"
      [] OTHER -> NoErr

\* Fault injection for SearchOrder: usedQuery is never assigned in the loop.
searchStepBaseQuery(st, q, r) ==
    [st EXCEPT !.candidates = r.candidates, !.searchErr = r.err,
               !.searched = Append(@, q)]

\* One iteration of the search loop of MatchPMVFile: r is what
\* SearchPMVHaven returned for variant q.
searchStep(st, q, r) ==
    [st EXCEPT !.candidates = r.candidates, !.searchErr = r.err,
               !.searched = Append(@, q),
               !.usedQuery = IF r.err = NoErr /\ Len(r.candidates) > 0 THEN q ELSE @]

\* The search loop of MatchPMVFile from variant i on; st carries candidates,
\* searchErr and usedQuery, and the list of the queries searched so far.
\* resps[i] is what the site answers to the search URLs of variant i.  The
\* loop breaks after an iteration without error and with candidates.
RECURSIVE searchLoop(_, _, _, _)
searchLoop(searchQueries, resps, i, st) ==
    IF i > Len(searchQueries) \/ (st.searchErr = NoErr /\ Len(st.candidates) > 0) THEN st
    ELSE searchLoop(searchQueries, resps, i + 1,
                    searchStep(st, searchQueries[i],
                               SearchPMVHaven(resps[i], pmvMatchCandidateLimit)))

\* Fault injection for SearchExhausted: the search error is not looked at.
searchVerdictIgnoringError(st) ==
    IF Len(st.candidates) = 0 THEN "none" ELSE "rank"

\* What MatchPMVFile does with the outcome of the search loop: "abort" (424),
\* "none" (200, no candidates) or "rank".
searchVerdict(st) ==
    IF st.searchErr # NoErr /\ Len(st.candidates) = 0 THEN "abort"
    ELSE IF Len(st.candidates) = 0 THEN "none"
    ELSE "rank"

\* An iteration of the enrichment loop whose detail URL is in thumbCache.
enrichCached(en, i, cacheKey) ==
    [en EXCEPT !.candidates =
        IF en.candidates[i].ThumbnailURL = "" /\ en.thumbCache[cacheKey] # ""
        THEN [@ EXCEPT ![i].ThumbnailURL = en.thumbCache[cacheKey]]
        ELSE @]

\* Fault injection for EnrichFailureNonFatal: a failed enrichment wipes the
\* title and the thumbnail of the candidate.
enrichFetchedWipeOnError(en, i, cacheKey, e) ==
    [candidates |-> IF e.err # NoErr
                    THEN [en.candidates EXCEPT ![i].Title = <<>>, ![i].ThumbnailURL = ""]
                    ELSE [en.candidates EXCEPT ![i] = e.candidate],
     thumbCache |-> en.thumbCache @@
                    (cacheKey :> IF e.err # NoErr THEN en.candidates[i].ThumbnailURL
                                 ELSE e.candidate.ThumbnailURL),
     fetched |-> Append(en.fetched, cacheKey)]

\* An iteration that requested the detail page: e is what
\* EnrichPMVHavenCandidateThumbnail returned.
enrichFetched(en, i, cacheKey, e) ==
    [candidates |-> IF e.err # NoErr THEN en.candidates
                    ELSE [en.candidates EXCEPT ![i] = e.candidate],
     thumbCache |-> en.thumbCache @@
                    (cacheKey :> IF e.err # NoErr THEN en.candidates[i].ThumbnailURL
                                 ELSE e.candidate.ThumbnailURL),
     fetched |-> Append(en.fetched, cacheKey)]

\* The enrichment loop of MatchPMVFile from candidate i on; fetches[u] is
\* what the site answers to the GET for the candidate with detail URL u;
\* en carries candidates, thumbCache and the list of the detail URLs, as
\* the candidates carry them, for which a page was requested.
RECURSIVE enrichLoop(_, _, _)
enrichLoop(fetches, i, en) ==
    IF i > Len(en.candidates) THEN en
    ELSE enrichLoop(fetches, i + 1,
             IF en.candidates[i].SceneURL \in DOMAIN en.thumbCache
             THEN enrichCached(en, i, en.candidates[i].SceneURL)
             ELSE enrichFetched(en, i, en.candidates[i].SceneURL,
                      EnrichPMVHavenCandidateThumbnail(
                          en.candidates[i], fetches[en.candidates[i].SceneURL])))

\* The ranking of MatchPMVFile: score, sort, number the ranks.
numberRanks(ranked) == [i \in DOMAIN ranked |-> [ranked[i] EXCEPT !.Rank = i]]

rankCandidates(query, candidates) ==
    numberRanks(sortCandidates(scorePMVCandidatesByText(query, candidates)))

\* Fault injection for DryRunLeavesStoreUnchanged: the dry-run return is missing.
decideAlwaysPersist(dryRun) == "persist"

\* The decision of MatchPMVFile once a top candidate exists: report it (a
\* dry run) or go on to applyPMVMatch.
decide(dryRun) == IF dryRun THEN "done" ELSE "persist"

\* An invocation of MatchPMVFile: pc "done" with what it returns (Result,
\* StatusCode, Err), or pc "persist" with the file row it read and the
\* result it is about to apply.  searchQueries, searched and fetched list
\* the variants it built and the requests it made.
newInvocation(fileID, dryRun) ==
    [pc |-> "done", fileID |-> fileID, dryRun |-> dryRun, file |-> Nil,
     Result |-> Nil, StatusCode |-> 0, Err |-> NoErr,
     searchQueries |-> <<>>, searched |-> <<>>, fetched |-> <<>>]

\* &PMVMatchResult{...} as MatchPMVFile first builds it.
newResult(file, query) ==
    [Status |-> "ok", FileID |-> file.ID, Filename |-> file.Filename,
     Query |-> query, Autolinked |-> FALSE, MatchedSceneID |-> NoScene,
     Candidates |-> <<>>, Message |-> ""]

\* MatchPMVFile from the ranked candidates to the dry-run return or the
\* call of applyPMVMatch.
matchRanked(inv, result, usedQuery, ranked) ==
    [inv EXCEPT !.pc = decide(inv.dryRun),
                !.StatusCode = IF decide(inv.dryRun) = "done" THEN 200 ELSE 0,
                !.Result = [result EXCEPT
                    !.Query = usedQuery, !.Candidates = ranked,
                    !.MatchedSceneID = buildPMVCustomSceneID(inv.fileID),
                    !.Message = IF decide(inv.dryRun) = "done"
                                THEN "dry run: best candidate found, no database changes applied"
                                ELSE ""]]

\* MatchPMVFile from the enriched candidates on.
matchEnriched(inv, result, query, usedQuery, en) ==
    matchRanked([inv EXCEPT !.fetched = en.fetched], result, usedQuery,
                rankCandidates(query, en.candidates))

\* MatchPMVFile from the end of the search loop on.
matchSearched(inv, result, query, st, enrichResps) ==
    IF searchVerdict(st) = "abort"
    THEN [inv EXCEPT !.searched = st.searched, !.StatusCode = 424, !.Err = st.searchErr]
    ELSE IF searchVerdict(st) = "none"
    THEN [inv EXCEPT !.searched = st.searched, !.StatusCode = 200,
                     !.Result = [result EXCEPT !.Message = "no PMVHaven candidates found"]]
    ELSE matchEnriched([inv EXCEPT !.searched = st.searched], result, query, st.usedQuery,
                       enrichLoop(enrichResps, 1,
                                  [candidates |-> st.candidates,
                                   thumbCache |-> [u \in {} |-> ""], fetched |-> <<>>]))

\* MatchPMVFile from the variants of the query on.
matchQueries(inv, query, searchQueries, searchResps, enrichResps) ==
    matchSearched([inv EXCEPT !.searchQueries = searchQueries],
                  newResult(inv.file, query), query,
                  searchLoop(searchQueries, searchResps, 1,
                             [candidates |-> <<>>, searchErr |-> NoErr,
                              usedQuery |-> query, searched |-> <<>>]),
                  enrichResps)

\* MatchPMVFile from the normalized query on.
matchQuery(inv, query, searchResps, enrichResps) ==
    IF query = <<>>
    THEN [inv EXCEPT !.StatusCode = 400, !.Err = "could not build a query from filename"]
    ELSE matchQueries(inv, query, buildPMVSearchQueries(inv.file.Filename, query),
                      searchResps, enrichResps)

\* MatchPMVFile from the validation verdict v on.
matchValidated(inv, v, dbFiles, searchResps, enrichResps) ==
    IF v # 0 THEN [inv EXCEPT !.StatusCode = v, !.Err = validateError(v)]
    ELSE matchQuery([inv EXCEPT !.file = dbFiles[inv.fileID]],
                    normalizePMVQuery(dbFiles[inv.fileID].Filename),
                    searchResps, enrichResps)

\* MatchPMVFile up to its call of applyPMVMatch.
MatchPMVFileBegin(fileID, dryRun, dbFiles, searchResps, enrichResps) ==
    matchValidated(newInvocation(fileID, dryRun), validateFile(fileID, dbFiles),
                   dbFiles, searchResps, enrichResps)

\* Fault injection for DryRunSameDataWhenPersisted: the linked call reports
\* the identifier of the remote entry instead of the catalog identifier.
MatchPMVFileEndRemoteID(inv, applied) ==
    IF applied.err # NoErr
    THEN [inv EXCEPT !.pc = "done", !.Result = Nil, !.StatusCode = 500, !.Err = applied.err]
    ELSE [inv EXCEPT !.pc = "done", !.StatusCode = 200,
                     !.Result = [@ EXCEPT !.Autolinked = TRUE,
                                          !.MatchedSceneID = <<"pmvhaven", inv.Result.Candidates[1].PMVID>>,
                                          !.Message = "file linked to custom PMV scene"]]

\* The rest of MatchPMVFile: applied is what applyPMVMatch returned.
MatchPMVFileEnd(inv, applied) ==
    IF applied.err # NoErr
    THEN [inv EXCEPT !.pc = "done", !.Result = Nil, !.StatusCode = 500, !.Err = applied.err]
    ELSE [inv EXCEPT !.pc = "done", !.StatusCode = 200,
                     !.Result = [@ EXCEPT !.Autolinked = TRUE,
                                          !.MatchedSceneID = applied.sceneID,
                                          !.Message = "file linked to custom PMV scene"]]

\* The answers the site may give to the searches and detail fetches of one
\* match of file fileID: one list of URL answers per query variant.
NumQueries(fileID, dbFiles) ==
    IF fileID \in DOMAIN dbFiles
    THEN Len(buildPMVSearchQueries(dbFiles[fileID].Filename,
                                   normalizePMVQuery(dbFiles[fileID].Filename)))
    ELSE 0

SearchRespsFor(fileID, dbFiles) ==
    [1..NumQueries(fileID, dbFiles) -> {<<f>> : f \in SearchFetches}]

EnrichResps == [SceneURLs -> EnrichFetches]

\* -------------------------------------------- single-file endpoint /pmv-match
NoSite == [sr |-> <<>>, er |-> <<>>]

IdleCall ==
    [pc |-> "idle", fileID |-> 0, dryRun |-> FALSE, file |-> Nil,
     Result |-> Nil, StatusCode |-> 0, Err |-> NoErr,
     searchQueries |-> <<>>, searched |-> <<>>, fetched |-> <<>>]

\* The handler pmvMatch calls MatchPMVFile(r.FileID, r.DryRun): validation,
\* search, enrichment and ranking against the answers sr and er of the site.
pmvMatchBegin(fileID, dryRun, sr, er) ==
    /\ call.pc = "idle"
    /\ calls < MaxCalls
    /\ call' = MatchPMVFileBegin(fileID, dryRun, files, sr, er)
    /\ twin' = MatchPMVFileBegin(fileID, TRUE, files, sr, er)
    /\ calls' = calls + 1
    /\ site' = [sr |-> sr, er |-> er]
    /\ UNCHANGED dbVars

\* MatchPMVFile persists the top candidate; the store fails at failAt.
pmvMatchApplied(applied) ==
    /\ files' = applied.files
    /\ scenes' = applied.scenes
    /\ call' = MatchPMVFileEnd(call, applied)

pmvMatchApply(failAt) ==
    /\ call.pc = "persist"
    /\ pmvMatchApplied(applyPMVMatch([files |-> files, scenes |-> scenes], call.file,
                                     call.Result.Candidates[1], failAt))
    /\ UNCHANGED <<twin, calls, site>>

\* The handler writes the response (APIError or the result) and returns.
pmvMatchReturn ==
    /\ call.pc = "done"
    /\ call' = IdleCall
    /\ twin' = IdleCall
    /\ site' = NoSite
    /\ UNCHANGED <<dbVars, calls>>

\* ---------------------------------------------------------- batch scheduler
\* Fault injection for BatchParamsNormalized: no upper cap.
normalizePMVBatchLimitUncapped(limit) == IF limit <= 0 THEN 50 ELSE limit

normalizePMVBatchLimit(limit) ==
    IF limit <= 0 THEN 50 ELSE IF limit > 500 THEN 500 ELSE limit

normalizePMVBatchConcurrency(concurrency) ==
    IF concurrency <= 0 THEN 10 ELSE IF concurrency > 50 THEN 50 ELSE concurrency

\* A set of file ids, newest first (created_time grows with the id).
RECURSIVE newestFirst(_)
newestFirst(ids) ==
    IF ids = {} THEN <<>>
    ELSE LET m == CHOOSE x \in ids : \A y \in ids : y <= x
         IN  <<m>> \o newestFirst(ids \ {m})

\* The query of MatchPMVUnmatchedFiles: unmatched video files, of the volume
\* asked for if any, newest first, at most limit of them.
limitRows(dbFiles, ordered, limit) ==
    [i \in 1..(IF Len(ordered) < limit THEN Len(ordered) ELSE limit) |-> dbFiles[ordered[i]]]

selectFiles(dbFiles, r, limit) ==
    limitRows(dbFiles,
              newestFirst({id \in DOMAIN dbFiles :
                              /\ dbFiles[id].Type = "video"
                              /\ dbFiles[id].SceneID = 0
                              /\ (r.VolumeID # 0 => dbFiles[id].VolumeID = r.VolumeID)}),
              limit)

Workers == 1..MaxFiles

ZeroItem == [FileID |-> 0, Filename |-> <<>>, StatusCode |-> 0, Error |-> NoErr, Result |-> Nil]

OffWorker == [pc |-> "off", Index |-> 0, File |-> Nil, inv |-> IdleCall]

\* The PMVMatchBatchItem a worker builds from what MatchPMVFile returned.
batchItem(file, inv) ==
    [FileID |-> file.ID, Filename |-> file.Filename,
     StatusCode |-> IF inv.StatusCode = 0 THEN 500 ELSE inv.StatusCode,
     Error |-> inv.Err, Result |-> IF inv.Err # NoErr THEN Nil ELSE inv.Result]

\* Fault injection for BatchResultOrder: the collector fills the slots in
\* the order the results arrive.
storeResultInArrivalOrder(slots, r) ==
    [slots EXCEPT ![CHOOSE k \in DOMAIN slots :
                       /\ slots[k].FileID = 0
                       /\ \A j \in 1..(k - 1) : slots[j].FileID # 0] = r.Item]

\* The collector's write of one received result into its slot.
storeResult(slots, r) == [slots EXCEPT ![r.Index] = r.Item]

\* Fault injection for BatchCountersPartition: conflicts are counted as errors.
itemClassNoConflict(item) ==
    IF item.Error # NoErr THEN "error"
    ELSE IF item.Result = Nil THEN "error"
    ELSE IF item.Result.Autolinked THEN "matched"
    ELSE "none"

\* The class the counting loop of MatchPMVUnmatchedFiles puts an item in.
itemClass(item) ==
    IF item.Error # NoErr THEN (IF item.StatusCode = 409 THEN "skipped" ELSE "error")
    ELSE IF item.Result = Nil THEN "error"
    ELSE IF item.Result.Autolinked THEN "matched"
    ELSE "none"

countClass(items, class) == Cardinality({i \in DOMAIN items : itemClass(items[i]) = class})

\* MatchPMVUnmatchedFiles up to the start of its goroutines.
\* Fault injection for WorkerCount: one worker per unit of concurrency,
\* whatever the number of files.
batchSelectedUncapped(fs, concurrency) ==
    /\ bfiles' = fs
    /\ batchOut' = [Scanned |-> Len(fs), Matched |-> 0, SkippedAlreadyMatch |-> 0, Errors |-> 0,
                    Results |-> [i \in 1..Len(fs) |-> ZeroItem]]
    /\ bpc' = IF Len(fs) = 0 THEN "done" ELSE "collect"
    /\ wk' = [w \in Workers |->
                 IF w <= concurrency THEN [OffWorker EXCEPT !.pc = "idle"] ELSE OffWorker]
    /\ feeder' = [i |-> 1, jobsClosed |-> FALSE, resultsClosed |-> FALSE]

batchSelected(fs, concurrency) ==
    /\ bfiles' = fs
    /\ batchOut' = [Scanned |-> Len(fs), Matched |-> 0, SkippedAlreadyMatch |-> 0, Errors |-> 0,
                    Results |-> [i \in 1..Len(fs) |-> ZeroItem]]
    /\ bpc' = IF Len(fs) = 0 THEN "done" ELSE "collect"
    /\ wk' = [w \in Workers |->
                 IF w <= (IF concurrency > Len(fs) THEN Len(fs) ELSE concurrency)
                 THEN [OffWorker EXCEPT !.pc = "idle"] ELSE OffWorker]
    /\ feeder' = [i |-> 1, jobsClosed |-> FALSE, resultsClosed |-> FALSE]

BatchStart ==
    /\ bpc = "start"
    /\ batchSelected(selectFiles(files, req, normalizePMVBatchLimit(req.Limit)),
                     normalizePMVBatchConcurrency(req.Concurrency))
    /\ UNCHANGED <<req, results, dbVars, callVars, lockVars, probe>>

\* jobs <- batchJob{i, file} meets a worker's receive: jobs is unbuffered.
FeedJob(w) ==
    /\ bpc = "collect"
    /\ feeder.i <= Len(bfiles)
    /\ wk[w].pc = "idle"
    /\ wk' = [wk EXCEPT ![w] = [pc |-> "match", Index |-> feeder.i, File |-> bfiles[feeder.i],
                                inv |-> IdleCall]]
    /\ feeder' = [feeder EXCEPT !.i = @ + 1]
    /\ UNCHANGED <<req, bpc, bfiles, results, batchOut, dbVars, callVars, lockVars, probe>>

\* close(jobs)
FeederClose ==
    /\ bpc = "collect"
    /\ feeder.i > Len(bfiles)
    /\ ~feeder.jobsClosed
    /\ feeder' = [feeder EXCEPT !.jobsClosed = TRUE]
    /\ UNCHANGED <<req, bpc, bfiles, wk, results, batchOut, dbVars, callVars, lockVars, probe>>

\* A worker's range over jobs ends; deferred wg.Done().
WorkerExit(w) ==
    /\ wk[w].pc = "idle"
    /\ feeder.jobsClosed
    /\ wk' = [wk EXCEPT ![w].pc = "exited"]
    /\ UNCHANGED <<req, bpc, bfiles, feeder, results, batchOut, dbVars, callVars, lockVars, probe>>

\* wg.Wait() returns; close(results)
FeederWait ==
    /\ feeder.jobsClosed
    /\ ~feeder.resultsClosed
    /\ \A w \in Workers : wk[w].pc \in {"off", "exited"}
    /\ feeder' = [feeder EXCEPT !.resultsClosed = TRUE]
    /\ UNCHANGED <<req, bpc, bfiles, wk, results, batchOut, dbVars, callVars, lockVars, probe>>

\* A worker calls MatchPMVFile(job.File.ID, req.DryRun); when the call
\* returns without persisting, the worker sends the item on results.
\* Fault injection for BatchIsolatesFailures: a worker that got an error
\* from MatchPMVFile sends no result.
workerMatchedDropError(w, inv) ==
    IF inv.pc = "done"
    THEN /\ results' = IF inv.Err # NoErr THEN results
                       ELSE Append(results, [Index |-> wk[w].Index,
                                             Item |-> batchItem(wk[w].File, inv)])
         /\ wk' = [wk EXCEPT ![w] = [OffWorker EXCEPT !.pc = "idle"]]
    ELSE /\ wk' = [wk EXCEPT ![w].pc = "persist", ![w].inv = inv]
         /\ UNCHANGED results

\* Fault injection for BatchTerminates: the worker returns after its first
\* job instead of receiving the next one.
workerMatchedThenExit(w, inv) ==
    IF inv.pc = "done"
    THEN /\ results' = Append(results, [Index |-> wk[w].Index,
                                        Item |-> batchItem(wk[w].File, inv)])
         /\ wk' = [wk EXCEPT ![w] = [OffWorker EXCEPT !.pc = "exited"]]
    ELSE /\ wk' = [wk EXCEPT ![w].pc = "persist", ![w].inv = inv]
         /\ UNCHANGED results

workerMatched(w, inv) ==
    IF inv.pc = "done"
    THEN /\ results' = Append(results, [Index |-> wk[w].Index,
                                        Item |-> batchItem(wk[w].File, inv)])
         /\ wk' = [wk EXCEPT ![w] = [OffWorker EXCEPT !.pc = "idle"]]
    ELSE /\ wk' = [wk EXCEPT ![w].pc = "persist", ![w].inv = inv]
         /\ UNCHANGED results

WorkerMatch(w, sr, er) ==
    /\ wk[w].pc = "match"
    /\ workerMatched(w, MatchPMVFileBegin(wk[w].File.ID, req.DryRun, files, sr, er))
    /\ UNCHANGED <<req, bpc, bfiles, feeder, batchOut, dbVars, callVars, lockVars, probe>>

\* The worker's MatchPMVFile persists the top candidate (the store fails at
\* failAt) and returns; the worker sends the item on results.
\* Fault injection for EachJobOnce: the worker sends its item twice.
workerAppliedSendsTwice(w, applied) ==
    /\ files' = applied.files
    /\ scenes' = applied.scenes
    /\ results' = results \o
                     [k \in 1..2 |-> [Index |-> wk[w].Index,
                                      Item |-> batchItem(wk[w].File,
                                                         MatchPMVFileEnd(wk[w].inv, applied))]]
    /\ wk' = [wk EXCEPT ![w] = [OffWorker EXCEPT !.pc = "idle"]]

workerApplied(w, applied) ==
    /\ files' = applied.files
    /\ scenes' = applied.scenes
    /\ results' = Append(results, [Index |-> wk[w].Index,
                                   Item |-> batchItem(wk[w].File,
                                                      MatchPMVFileEnd(wk[w].inv, applied))])
    /\ wk' = [wk EXCEPT ![w] = [OffWorker EXCEPT !.pc = "idle"]]

WorkerApply(w, failAt) ==
    /\ wk[w].pc = "persist"
    /\ workerApplied(w, applyPMVMatch([files |-> files, scenes |-> scenes], wk[w].inv.file,
                                      wk[w].inv.Result.Candidates[1], failAt))
    /\ UNCHANGED <<req, bpc, bfiles, feeder, batchOut, callVars, lockVars, probe>>

\* for r := range results { batchOut.Results[r.Index] = r.Item }
Collect ==
    /\ bpc = "collect"
    /\ results # <<>>
    /\ batchOut' = [batchOut EXCEPT !.Results = storeResult(@, Head(results))]
    /\ results' = Tail(results)
    /\ UNCHANGED <<req, bpc, bfiles, feeder, wk, dbVars, callVars, lockVars, probe>>

\* results is closed and drained: count the items and return.
BatchFinish ==
    /\ bpc = "collect"
    /\ results = <<>>
    /\ feeder.resultsClosed
    /\ batchOut' = [batchOut EXCEPT !.Matched = countClass(batchOut.Results, "matched"),
                          !.SkippedAlreadyMatch = countClass(batchOut.Results, "skipped"),
                          !.Errors = countClass(batchOut.Results, "error")]
    /\ bpc' = "done"
    /\ UNCHANGED <<req, bfiles, feeder, wk, results, dbVars, callVars, lockVars, probe>>

\* The answers of the site within a batch: the same answer to every search
\* URL and to every detail URL of one match.
UniformSearchResps(fileID, dbFiles) ==
    {[i \in 1..NumQueries(fileID, dbFiles) |-> <<f>>] : f \in SearchFetches}

UniformEnrichResps == {[u \in SceneURLs |-> e] : e \in EnrichFetches}

\* The site finds candidates for every query and fails every detail fetch.
SearchHit(fileID, dbFiles) ==
    [i \in 1..NumQueries(fileID, dbFiles) |-> <<[fail |-> FALSE, err |-> NoErr, parsed |-> <<CandB, CandA>>]>>]

EnrichFail == [u \in SceneURLs |-> [fail |-> TRUE, thumb |-> "", title |-> <<>>]]

\* --------------------------------------- background trigger and its run lock
Triggers == 1..MaxTriggers

\* models.CheckLock, models.CreateLock, models.RemoveLock on the named lock.
CheckLock(l) == l
CreateLock(l) == TRUE
RemoveLock(l) == FALSE

OffTrigger ==
    [kind |-> "none", pc |-> "new", dryRun |-> FALSE, sel |-> <<>>, todo |-> {}, err |-> NoErr]

\* MatchPMVFile from call to return, on the store db = [files, scenes].
matchApplied(inv, applied) ==
    [inv |-> MatchPMVFileEnd(inv, applied), files |-> applied.files, scenes |-> applied.scenes]

matchBegun(inv, db, failAt) ==
    IF inv.pc = "done" THEN [inv |-> inv, files |-> db.files, scenes |-> db.scenes]
    ELSE matchApplied(inv, applyPMVMatch(db, inv.file, inv.Result.Candidates[1], failAt))

MatchPMVFile(fileID, dryRun, db, sr, er, failAt) ==
    matchBegun(MatchPMVFileBegin(fileID, dryRun, db.files, sr, er), db, failAt)

\* The requests are numbered in the order they arrive.
arrives(t) == trig[t].pc = "new" /\ \A u \in 1..(t - 1) : trig[u].pc # "new"

\* GET /pmv-match-unmatched: the handler pmvMatchUnmatchedTask starts
\* RunPMVMatchUnmatchedTask in a goroutine and returns.
pmvMatchUnmatchedTask(t, dryRun) ==
    /\ arrives(t)
    /\ trig' = [trig EXCEPT ![t] = [OffTrigger EXCEPT !.kind = "task", !.pc = "check",
                                                     !.dryRun = dryRun]]
    /\ UNCHANGED <<lock, dbVars, callVars, batchVars, probe>>

\* POST /pmv-match-unmatched: the handler pmvMatchUnmatched calls
\* MatchPMVUnmatchedFiles itself.
pmvMatchUnmatched(t, dryRun) ==
    /\ arrives(t)
    /\ trig' = [trig EXCEPT ![t] = [OffTrigger EXCEPT !.kind = "sync", !.pc = "enter",
                                                     !.dryRun = dryRun]]
    /\ UNCHANGED <<lock, dbVars, callVars, batchVars, probe>>

\* Fault injection for LockedRunIsNoOp: the skipped run releases the lock.
runTaskCheckUnlocking(held, l) ==
    IF held THEN [pc |-> "skipped", lock |-> FALSE] ELSE [pc |-> "create", lock |-> l]

\* What RunPMVMatchUnmatchedTask does after models.CheckLock("pmv-match")
\* answered held: [pc, lock].
runTaskCheck(held, l) ==
    IF held THEN [pc |-> "skipped", lock |-> l] ELSE [pc |-> "create", lock |-> l]

\* RunPMVMatchUnmatchedTask: if models.CheckLock("pmv-match") { return }
RunTaskCheck(t) ==
    /\ trig[t].pc = "check"
    /\ trig' = [trig EXCEPT ![t].pc = runTaskCheck(CheckLock(lock), lock).pc]
    /\ lock' = runTaskCheck(CheckLock(lock), lock).lock
    /\ UNCHANGED <<dbVars, callVars, batchVars, probe>>

\* models.CreateLock("pmv-match"); defer models.RemoveLock("pmv-match")
RunTaskCreateLock(t) ==
    /\ trig[t].pc = "create"
    /\ lock' = CreateLock(lock)
    /\ trig' = [trig EXCEPT ![t].pc = "enter"]
    /\ UNCHANGED <<dbVars, callVars, batchVars, probe>>

runEntered(t, fs) ==
    trig' = [trig EXCEPT ![t].pc = "run", ![t].sel = fs, ![t].todo = DOMAIN fs]

\* MatchPMVUnmatchedFiles is entered and selects its files.
RunBatchEnter(t) ==
    /\ trig[t].pc = "enter"
    /\ runEntered(t, selectFiles(files, [VolumeID |-> 0], normalizePMVBatchLimit(0)))
    /\ UNCHANGED <<lock, dbVars, callVars, batchVars, probe>>

\* Fault injection for LockReleased: the failed run returns without the
\* deferred models.RemoveLock.
RunBatchFailKeepsLock(t) ==
    /\ trig[t].pc = "enter"
    /\ trig' = [trig EXCEPT ![t].pc = "done", ![t].err = "find"]
    /\ UNCHANGED <<lock, dbVars, callVars, batchVars, probe>>

\* The query for the unmatched files fails: MatchPMVUnmatchedFiles returns
\* nil, 500, err, and RunPMVMatchUnmatchedTask logs the failure and returns.
RunBatchFail(t) ==
    /\ trig[t].pc = "enter"
    /\ trig' = [trig EXCEPT ![t].pc = IF trig[t].kind = "task" THEN "remove" ELSE "done",
                            ![t].err = "find"]
    /\ UNCHANGED <<lock, dbVars, callVars, batchVars, probe>>

runMatched(m) == files' = m.files /\ scenes' = m.scenes

\* One of its workers matches one selected file.
RunBatchMatch(t, i, sr, er, failAt) ==
    /\ trig[t].pc = "run"
    /\ i \in trig[t].todo
    /\ runMatched(MatchPMVFile(trig[t].sel[i].ID, trig[t].dryRun,
                               [files |-> files, scenes |-> scenes], sr, er, failAt))
    /\ trig' = [trig EXCEPT ![t].todo = @ \ {i}]
    /\ UNCHANGED <<lock, callVars, batchVars, probe>>

\* MatchPMVUnmatchedFiles returns to its caller.
RunBatchReturn(t) ==
    /\ trig[t].pc = "run"
    /\ trig[t].todo = {}
    /\ trig' = [trig EXCEPT ![t].pc = IF trig[t].kind = "task" THEN "remove" ELSE "done"]
    /\ UNCHANGED <<lock, dbVars, callVars, batchVars, probe>>

\* The deferred models.RemoveLock("pmv-match") as RunPMVMatchUnmatchedTask returns.
RunTaskRemoveLock(t) ==
    /\ trig[t].pc = "remove"
    /\ lock' = RemoveLock(lock)
    /\ trig' = [trig EXCEPT ![t].pc = "done"]
    /\ UNCHANGED <<dbVars, callVars, batchVars, probe>>

\* ------------------------------------------------------------ specifications
InitDB == files \in InitFiles /\ scenes = InitScenes

\* The store with every file unmatched.
StoreOff ==
    /\ files = [id \in FileIDs |-> [ID |-> id, Filename |-> FilenameOf(id), SceneID |-> 0,
                                     Type |-> "video", VolumeID |-> 1 + (id % 2)]]
    /\ scenes = InitScenes

InitCall == call = IdleCall /\ twin = IdleCall /\ site = NoSite

BatchOff ==
    /\ req = [DryRun |-> FALSE, Limit |-> 0, Concurrency |-> 0, VolumeID |-> 0]
    /\ bpc = "off"
    /\ bfiles = <<>>
    /\ feeder = [i |-> 1, jobsClosed |-> FALSE, resultsClosed |-> FALSE]
    /\ wk = [w \in Workers |-> OffWorker]
    /\ results = <<>>
    /\ batchOut = [Scanned |-> 0, Matched |-> 0, SkippedAlreadyMatch |-> 0, Errors |-> 0,
                   Results |-> <<>>]

LockOff == lock = FALSE /\ trig = [t \in Triggers |-> OffTrigger]

ProbeOff == probe = [fn |-> "", done |-> TRUE]

\* Single-file requests, one after the other.
InitMatch == InitDB /\ InitCall /\ calls = 0 /\ BatchOff /\ LockOff /\ ProbeOff

NextMatch ==
    \/ \E fileID \in 0..(MaxFiles + 1), dryRun \in BOOLEAN :
           \E sr \in SearchRespsFor(fileID, files), er \in EnrichResps :
               pmvMatchBegin(fileID, dryRun, sr, er) /\ UNCHANGED <<batchVars, lockVars, probe>>
    \/ \E failAt \in StoreFailures : pmvMatchApply(failAt) /\ UNCHANGED <<batchVars, lockVars, probe>>
    \/ pmvMatchReturn /\ UNCHANGED <<batchVars, lockVars, probe>>

SpecMatch == InitMatch /\ [][NextMatch]_vars

\* One batch run, with one single-file request beside it.
Init ==
    /\ InitDB /\ InitCall /\ calls = MaxCalls - 1 /\ LockOff /\ ProbeOff
    /\ req \in [DryRun : BOOLEAN, Limit : {0, 1}, Concurrency : {0, 1}, VolumeID : {0, 1}]
    /\ bpc = "start"
    /\ bfiles = <<>>
    /\ feeder = [i |-> 1, jobsClosed |-> FALSE, resultsClosed |-> FALSE]
    /\ wk = [w \in Workers |-> OffWorker]
    /\ results = <<>>
    /\ batchOut = [Scanned |-> 0, Matched |-> 0, SkippedAlreadyMatch |-> 0, Errors |-> 0,
                   Results |-> <<>>]

Next ==
    \/ BatchStart
    \/ \E w \in Workers : FeedJob(w)
    \/ FeederClose
    \/ \E w \in Workers : WorkerExit(w)
    \/ FeederWait
    \/ \E w \in Workers :
           /\ wk[w].pc = "match"
           /\ \E sr \in UniformSearchResps(wk[w].File.ID, files), er \in UniformEnrichResps :
                  WorkerMatch(w, sr, er)
    \/ \E w \in Workers, failAt \in StoreFailures : WorkerApply(w, failAt)
    \/ Collect
    \/ BatchFinish
    \/ \E fileID \in FileIDs, dryRun \in BOOLEAN :
           pmvMatchBegin(fileID, dryRun, SearchHit(fileID, files), EnrichFail)
               /\ UNCHANGED <<batchVars, lockVars, probe>>
    \/ pmvMatchApply(0) /\ UNCHANGED <<batchVars, lockVars, probe>>

Spec == Init /\ [][Next]_vars

\* One batch run on its own, its goroutines scheduled fairly: a step of the
\* feeder, of a worker's loop or of the collector that stays possible is
\* taken, and the MatchPMVFile call of a worker returns.
InitLive ==
    /\ InitDB /\ InitCall /\ calls = MaxCalls /\ LockOff /\ ProbeOff
    /\ req \in [DryRun : BOOLEAN, Limit : {0, 1}, Concurrency : {0, 1}, VolumeID : {0, 1}]
    /\ bpc = "start"
    /\ bfiles = <<>>
    /\ feeder = [i |-> 1, jobsClosed |-> FALSE, resultsClosed |-> FALSE]
    /\ wk = [w \in Workers |-> OffWorker]
    /\ results = <<>>
    /\ batchOut = [Scanned |-> 0, Matched |-> 0, SkippedAlreadyMatch |-> 0, Errors |-> 0,
                   Results |-> <<>>]

NextLive ==
    \/ BatchStart
    \/ \E w \in Workers : FeedJob(w)
    \/ FeederClose
    \/ \E w \in Workers : WorkerExit(w)
    \/ FeederWait
    \/ \E w \in Workers :
           /\ wk[w].pc = "match"
           /\ \E sr \in UniformSearchResps(wk[w].File.ID, files), er \in UniformEnrichResps :
                  WorkerMatch(w, sr, er)
    \/ \E w \in Workers, failAt \in StoreFailures : WorkerApply(w, failAt)
    \/ Collect
    \/ BatchFinish

\* The steps of the feeder, of the workers' loop and of the collector.
Scheduled ==
    \/ BatchStart
    \/ \E w \in Workers : FeedJob(w)
    \/ FeederClose
    \/ \E w \in Workers : WorkerExit(w)
    \/ FeederWait
    \/ Collect
    \/ BatchFinish

\* Each per-file match terminates: no worker stays inside MatchPMVFile.
MatchesReturn == \A w \in Workers : []<>(wk[w].pc \notin {"match", "persist"})

SpecLive == InitLive /\ [][NextLive]_vars /\ WF_vars(Scheduled) /\ MatchesReturn

\* Batch triggers of both kinds, and the run lock.  A run matches its files
\* in selection order; the site finds candidates for every query and the
\* store may fail.
InitLock == InitDB /\ InitCall /\ calls = 0 /\ BatchOff /\ LockOff /\ ProbeOff

NextLock ==
    \/ \E t \in Triggers, dryRun \in BOOLEAN : pmvMatchUnmatchedTask(t, dryRun)
    \/ \E t \in Triggers, dryRun \in BOOLEAN : pmvMatchUnmatched(t, dryRun)
    \/ \E t \in Triggers : RunTaskCheck(t)
    \/ \E t \in Triggers : RunTaskCreateLock(t)
    \/ \E t \in Triggers : RunBatchEnter(t)
    \/ \E t \in Triggers, i \in 1..MaxFiles :
           /\ trig[t].pc = "run" /\ i \in trig[t].todo /\ \A j \in trig[t].todo : i <= j
           /\ \E failAt \in {0, 1} :
                  RunBatchMatch(t, i, SearchHit(trig[t].sel[i].ID, files), EnrichFail, failAt)
    \/ \E t \in Triggers : RunBatchFail(t)
    \/ \E t \in Triggers : RunBatchReturn(t)
    \/ \E t \in Triggers : RunTaskRemoveLock(t)

SpecLock == InitLock /\ [][NextLock]_vars

\* The goroutine of every background run is scheduled fairly, and every
\* call of MatchPMVUnmatchedFiles returns.
TaskStep(t) ==
    \/ RunTaskCheck(t)
    \/ RunTaskCreateLock(t)
    \/ RunTaskRemoveLock(t)

RunsReturn == \A t \in Triggers : []<>(trig[t].pc \notin {"enter", "run"})

\* Background runs only: the synchronous requests never touch the lock.
NextLockLive ==
    \/ \E t \in Triggers, dryRun \in BOOLEAN : pmvMatchUnmatchedTask(t, dryRun)
    \/ \E t \in Triggers : RunTaskCheck(t)
    \/ \E t \in Triggers : RunTaskCreateLock(t)
    \/ \E t \in Triggers : RunBatchEnter(t)
    \/ \E t \in Triggers, i \in 1..MaxFiles :
           /\ trig[t].pc = "run" /\ i \in trig[t].todo /\ \A j \in trig[t].todo : i <= j
           /\ RunBatchMatch(t, i, SearchHit(trig[t].sel[i].ID, files), EnrichFail, 0)
    \/ \E t \in Triggers : RunBatchFail(t)
    \/ \E t \in Triggers : RunBatchReturn(t)
    \/ \E t \in Triggers : RunTaskRemoveLock(t)

SpecLockLive ==
    InitLock /\ [][NextLockLive]_vars /\ (\A t \in Triggers : WF_vars(TaskStep(t)))
        /\ RunsReturn

\* ----------------------------------------------------------------- URLs
\* A URL text is a sequence of atoms: "https:", "http:", "/", "?", "#",
\* " " and names ("pmvhaven.com", "video", "s=q", ...); "" is <<>>.
pmvHavenBaseURL == <<"https:", "/", "/", "pmvhaven.com">>

trimStart(s, cutset) ==
    IF \A i \in DOMAIN s : s[i] \in cutset THEN <<>>
    ELSE SubSeq(s, CHOOSE i \in DOMAIN s :
                       s[i] \notin cutset /\ \A j \in 1..(i - 1) : s[j] \in cutset,
                Len(s))

trimEnd(s, cutset) ==
    IF \A i \in DOMAIN s : s[i] \in cutset THEN <<>>
    ELSE SubSeq(s, 1, CHOOSE i \in DOMAIN s :
                          s[i] \notin cutset /\ \A j \in (i + 1)..Len(s) : s[j] \in cutset)

\* strings.Trim, strings.TrimSpace, strings.TrimSuffix, strings.HasPrefix
Trim(s, cutset) == trimEnd(trimStart(s, cutset), cutset)
TrimSpace(s) == Trim(s, {" "})
TrimSuffix(s, a) == IF s # <<>> /\ s[Len(s)] = a THEN SubSeq(s, 1, Len(s) - 1) ELSE s
HasPrefix(s, prefix) == Len(s) >= Len(prefix) /\ SubSeq(s, 1, Len(prefix)) = prefix

\* strings.Cut at the first atom a.
IndexOf(s, a) ==
    IF \E i \in DOMAIN s : s[i] = a
    THEN CHOOSE i \in DOMAIN s : s[i] = a /\ \A j \in 1..(i - 1) : s[j] # a
    ELSE 0
cutBefore(s, a) == IF IndexOf(s, a) = 0 THEN s ELSE SubSeq(s, 1, IndexOf(s, a) - 1)
cutAfter(s, a) == IF IndexOf(s, a) = 0 THEN <<>> ELSE SubSeq(s, IndexOf(s, a) + 1, Len(s))

\* strings.ToLower
lowerAtom(a) ==
    CASE a = "Tag" -> "tag"
      [] a = "PMVHAVEN.COM" -> "pmvhaven.com"
      [] OTHER -> a
ToLower(s) == [i \in DOMAIN s |-> lowerAtom(s[i])]

Schemes == {"https:", "http:"}

\* net/url Parse, from the authority on: rest follows the scheme.
parseAuthority(scheme, rest, forceQuery, rawQuery, fragment) ==
    IF (scheme # "" \/ ~HasPrefix(rest, <<"/", "/", "/">>)) /\ HasPrefix(rest, <<"/", "/">>)
    THEN [Scheme |-> scheme,
          Host |-> cutBefore(SubSeq(rest, 3, Len(rest)), "/"),
          Path |-> SubSeq(rest, 2 + Len(cutBefore(SubSeq(rest, 3, Len(rest)), "/")) + 1,
                          Len(rest)),
          ForceQuery |-> forceQuery, RawQuery |-> rawQuery, Fragment |-> fragment]
    ELSE [Scheme |-> scheme, Host |-> <<>>, Path |-> rest,
          ForceQuery |-> forceQuery, RawQuery |-> rawQuery, Fragment |-> fragment]

\* ... from the scheme on: rest is the text before "?" and "#".
parseScheme(rest, forceQuery, rawQuery, fragment) ==
    IF rest # <<>> /\ Head(rest) \in Schemes
    THEN parseAuthority(Head(rest), Tail(rest), forceQuery, rawQuery, fragment)
    ELSE parseAuthority("", rest, forceQuery, rawQuery, fragment)

\* ... from the query on: a lone final "?" sets ForceQuery.
parseQuery(rest, fragment) ==
    IF rest # <<>> /\ rest[Len(rest)] = "?" /\ IndexOf(rest, "?") = Len(rest)
    THEN parseScheme(SubSeq(rest, 1, Len(rest) - 1), TRUE, <<>>, fragment)
    ELSE parseScheme(cutBefore(rest, "?"), FALSE, cutAfter(rest, "?"), fragment)

\* url.Parse of a text that parses.
urlParse(s) == parseQuery(cutBefore(s, "#"), cutAfter(s, "#"))

\* url.Parse reports an invalid escape in the host or the path.
urlParseFails(s) == "%zz" \in Range(cutBefore(cutBefore(s, "#"), "?"))

\* (*url.URL).String
urlString(u) ==
    (IF u.Scheme # "" THEN <<u.Scheme>> ELSE <<>>)
        \o (IF (u.Scheme # "" \/ u.Host # <<>>) /\ (u.Host # <<>> \/ u.Path # <<>>)
            THEN <<"/", "/">> \o u.Host ELSE <<>>)
        \o (IF u.Path # <<>> /\ Head(u.Path) # "/" /\ u.Host # <<>> THEN <<"/">> ELSE <<>>)
        \o u.Path
        \o (IF u.ForceQuery \/ u.RawQuery # <<>> THEN <<"?">> \o u.RawQuery ELSE <<>>)
        \o (IF u.Fragment # <<>> THEN <<"#">> \o u.Fragment ELSE <<>>)

\* (*url.URL).ResolveReference of the base URL, which has no path, no
\* query and no fragment; the references have no dot segments.
resolveReference(base, ref) ==
    IF ref.Scheme # "" \/ ref.Host # <<>>
    THEN [ref EXCEPT !.Scheme = IF ref.Scheme = "" THEN base.Scheme ELSE ref.Scheme]
    ELSE [Scheme |-> base.Scheme, Host |-> base.Host,
          Path |-> IF ref.Path = <<>> THEN base.Path
                   ELSE IF Head(ref.Path) = "/" THEN ref.Path
                   ELSE <<"/">> \o ref.Path,
          ForceQuery |-> ref.ForceQuery, RawQuery |-> ref.RawQuery,
          Fragment |-> ref.Fragment]

absoluteTrimmed(raw) ==
    IF raw = <<>> THEN <<>>
    ELSE IF HasPrefix(raw, <<"/", "/">>) THEN <<"https:">> \o raw
    ELSE IF HasPrefix(raw, <<"http:", "/", "/">>) \/ HasPrefix(raw, <<"https:", "/", "/">>)
    THEN raw
    ELSE IF urlParseFails(raw) THEN raw
    ELSE urlString(resolveReference(urlParse(pmvHavenBaseURL), urlParse(raw)))

absoluteURL(raw) == absoluteTrimmed(TrimSpace(raw))

canonicalParsed(u) ==
    urlString([u EXCEPT !.Fragment = <<>>, !.RawQuery = <<>>,
                        !.Path = TrimSuffix(u.Path, "/")])

canonicalAbsolute(abs) == IF urlParseFails(abs) THEN <<>> ELSE canonicalParsed(urlParse(abs))

canonicalSceneURL(raw) ==
    IF TrimSpace(raw) = <<>> THEN <<>> ELSE canonicalAbsolute(absoluteURL(raw))

\* strings.Contains(l, "pmvhaven.com"): some name of l has it inside.
containsSite(l) == \E i \in DOMAIN l : l[i] \in {"pmvhaven.com", "notpmvhaven.com"}

\* strings.Contains(l, b) for some b of blocked.
containsBlocked(l) ==
    \/ \E i \in 1..(Len(l) - 2) :
           /\ l[i] = "/" /\ l[i + 2] = "/"
           /\ l[i + 1] \in {"tag", "category", "author", "page", "wp-content"}
    \/ \E i \in 1..(Len(l) - 1) : l[i] = "/" /\ l[i + 1] = "feed"
    \/ \E i \in 1..(Len(l) - 1) : l[i] = "?" /\ l[i + 1] = "s=q"

looksLikeLowered(l) ==
    /\ containsSite(l)
    /\ ~urlParseFails(l) => Trim(urlParse(l).Path, {"/"}) # <<>>
    /\ ~containsBlocked(l)

looksLikeSceneURL(raw) ==
    canonicalSceneURL(raw) # <<>> /\ looksLikeLowered(ToLower(canonicalSceneURL(raw)))

\* ------------------------------------------------------ the search parser
\* path.Base of a URL path.
pathBase(path) ==
    IF path = <<>> THEN "."
    ELSE IF trimEnd(path, {"/"}) = <<>> THEN "/"
    ELSE trimEnd(path, {"/"})[Len(trimEnd(path, {"/"}))]

\* The id is the name the canonical path ends in; a path without one gives
\* the hash of the URL.
buildCandidateID(sceneURL) ==
    IF canonicalSceneURL(sceneURL) = <<>> THEN ""
    ELSE IF pathBase(urlParse(canonicalSceneURL(sceneURL)).Path) \in {".", "/"} THEN "sha1"
    ELSE lowerAtom(pathBase(urlParse(canonicalSceneURL(sceneURL)).Path))

titleFromSceneURL(sceneURL) == <<pathBase(urlParse(canonicalSceneURL(sceneURL)).Path)>>

\* addCandidate of ParsePMVHavenSearchHTML: the candidate as it is stored,
\* whether it is stored, and what the closure returns.
prepared(c) ==
    [ID |-> c.ID, Title |-> TrimSpace(c.Title), SceneURL |-> canonicalSceneURL(c.SceneURL),
     ThumbnailURL |-> absoluteURL(c.ThumbnailURL)]

accepts(out, p) ==
    /\ p.SceneURL # <<>> /\ p.Title # <<>>
    /\ \A k \in DOMAIN out : out[k].SceneURL # p.SceneURL

withID(p) == IF p.ID = "" THEN [p EXCEPT !.ID = buildCandidateID(p.SceneURL)] ELSE p

addCandidate(out, c) ==
    IF accepts(out, prepared(c)) THEN Append(out, withID(prepared(c))) ELSE out

addCandidateStops(out, c, limit) == accepts(out, prepared(c)) /\ Len(out) + 1 >= limit

\* A loop that offers candidates to addCandidate until it returns true.
RECURSIVE addLoop(_, _, _)
addLoop(candidates, limit, out) ==
    IF candidates = <<>> THEN out
    ELSE addLoop(IF addCandidateStops(out, Head(candidates), limit) THEN <<>>
                 ELSE Tail(candidates),
                 limit, addCandidate(out, Head(candidates)))

\* The links a[href*="/video/"] whose href looks like a scene URL.
hasVideoSegment(href) ==
    \E i \in 1..(Len(href) - 2) : href[i] = "/" /\ href[i + 1] = "video" /\ href[i + 2] = "/"

linkTaken(a) == hasVideoSegment(a.href) /\ looksLikeSceneURL(TrimSpace(a.href))

\* The title of a link: its own, else that of its image, else from the URL.
linkTitle(a) ==
    IF TrimSpace(a.title) # <<>> THEN TrimSpace(a.title)
    ELSE IF TrimSpace(a.alt) # <<>> THEN TrimSpace(a.alt)
    ELSE titleFromSceneURL(TrimSpace(a.href))

linkCandidate(a) ==
    [ID |-> buildCandidateID(TrimSpace(a.href)), Title |-> linkTitle(a),
     SceneURL |-> TrimSpace(a.href), ThumbnailURL |-> TrimSpace(a.thumb)]

linkCandidates(taken) == [i \in DOMAIN taken |-> linkCandidate(taken[i])]

\* parseCard up to its call of addCandidate.
cardCandidate(card) ==
    [ID |-> buildCandidateID(card.href), Title |-> card.title, SceneURL |-> card.href,
     ThumbnailURL |-> card.thumb]

cardCandidates(taken) == [i \in DOMAIN taken |-> cardCandidate(taken[i])]

cardsOf(cards) == cardCandidates(Filter(cards, {c \in Range(cards) : looksLikeSceneURL(c.href)}))

\* The loop over the container selectors; containers[i] holds the cards
\* the i-th selector finds.
RECURSIVE containerLoop(_, _, _)
containerLoop(containers, limit, out) ==
    IF containers = <<>> THEN out
    ELSE containerLoop(IF Len(addLoop(cardsOf(Head(containers)), limit, out)) >= limit
                       THEN <<>> ELSE Tail(containers),
                       limit, addLoop(cardsOf(Head(containers)), limit, out))

\* appendCandidate of parseJSONLDCandidates for one object of the script.
nodeAppended(out, node, sceneURL) ==
    IF \/ TrimSpace(node.title) = <<>> /\ TrimSpace(node.href) = <<>>
       \/ sceneURL = <<>>
       \/ \E k \in DOMAIN out : out[k].SceneURL = sceneURL
       \/ ~looksLikeSceneURL(sceneURL)
    THEN out
    ELSE Append(out, [ID |-> buildCandidateID(sceneURL), Title |-> TrimSpace(node.title),
                      SceneURL |-> sceneURL, ThumbnailURL |-> absoluteURL(node.thumb)])

RECURSIVE parseJSONLDNodes(_, _)
parseJSONLDNodes(nodes, out) ==
    IF nodes = <<>> THEN out
    ELSE parseJSONLDNodes(Tail(nodes),
                          nodeAppended(out, Head(nodes),
                                       canonicalSceneURL(TrimSpace(Head(nodes).href))))

parseJSONLDCandidates(nodes) == parseJSONLDNodes(nodes, <<>>)

\* The loop over the application/ld+json scripts.
RECURSIVE scriptLoop(_, _, _)
scriptLoop(scripts, limit, out) ==
    IF scripts = <<>> THEN out
    ELSE scriptLoop(IF Len(addLoop(parseJSONLDCandidates(Head(scripts)), limit, out)) >= limit
                    THEN <<>> ELSE Tail(scripts),
                    limit, addLoop(parseJSONLDCandidates(Head(scripts)), limit, out))

parseScripts(doc, limit, out) ==
    IF Len(out) < limit THEN scriptLoop(doc.scripts, limit, out) ELSE out

parseContainers(doc, limit, out) ==
    IF Len(out) >= limit THEN out
    ELSE parseScripts(doc, limit, containerLoop(doc.containers, limit, out))

parseLinks(doc, limit) ==
    parseContainers(doc, limit,
                    addLoop(linkCandidates(Filter(doc.links,
                                                  {a \in Range(doc.links) : linkTaken(a)})),
                            limit, <<>>))

\* A document is the links, the cards of each container selector and the
\* objects of each ld+json script it holds, in document order.
ParsePMVHavenSearchHTML(doc, limit) == parseLinks(doc, IF limit <= 0 THEN 5 ELSE limit)

\* ------------------------------------------------ the functions on their own
\* A second listing of the candidate at "u1", as another page may carry it.
CandA2 == [ID |-> "a2", Title |-> <<"aa", "dd">>, SceneURL |-> "u1", ThumbnailURL |-> "t1"]

\* The pages ParsePMVHavenSearchHTML may return: no detail URL twice.
ProbePages ==
    {<<>>} \cup {<<c>> : c \in {CandA, CandA2, CandB}}
           \cup {<<c, CandB>> : c \in {CandA, CandA2}}
           \cup {<<CandB, c>> : c \in {CandA, CandA2}}

\* The GET of one search URL: a transport error, a status outside 2xx, or
\* a page.
ProbeFetches ==
    {[fail |-> TRUE, err |-> e, parsed |-> <<>>]
       : e \in {"Get: timeout", "pmvhaven search failed with status 500"}}
        \cup {[fail |-> FALSE, err |-> NoErr, parsed |-> l] : l \in ProbePages}

SeqsUpTo(S, n) == UNION {[1..k -> S] : k \in 0..n}

SearchInputs ==
    {[fn |-> "SearchPMVHaven", arg |-> [fetches |-> f, limit |-> l], done |-> FALSE]
       : f \in SeqsUpTo(ProbeFetches, MaxVariants), l \in 1..MaxLimit}

ApplySearchPMVHaven ==
    /\ probe.fn = "SearchPMVHaven" /\ ~probe.done
    /\ probe' = [fn |-> probe.fn, arg |-> probe.arg, done |-> TRUE,
                 out |-> SearchPMVHaven(probe.arg.fetches, probe.arg.limit)]
    /\ UNCHANGED <<dbVars, callVars, batchVars, lockVars>>

\* The hrefs a page may carry: absolute, scheme-relative and relative, of
\* the site and of other hosts, with trailing slashes, queries, fragments.
URLPrefixes ==
    {<<>>, <<"/", "/", "pmvhaven.com">>, <<"http:", "/", "/", "PMVHAVEN.COM">>}
        \cup {<<"https:", "/", "/", h>> : h \in {"pmvhaven.com", "evil.com", "notpmvhaven.com"}}

URLPathBodies ==
    {<<>>, <<"/", "video", "/", "x">>, <<"/", "video", "/", "pmvhaven.com">>,
     <<"/", "tag", "/", "x">>, <<"/", "Tag", "/", "x">>, <<"/", "page", "/", "2">>,
     <<"/", "feed">>, <<"/", "%zz">>}

Slashes(k) == [i \in 1..k |-> "/"]

RawURLs ==
    {pre \o body \o Slashes(k) \o q \o f
       : pre \in URLPrefixes, body \in URLPathBodies, k \in 0..MaxSlashes,
         q \in {<<>>, <<"?">>, <<"?", "s=q">>}, f \in {<<>>, <<"#", "top">>}}
        \cup {<<>>, <<" ">>, <<"video", "/", "x">>, <<"video", "/", "x", "/">>,
              <<" ", "/", "video", "/", "x", "/", " ">>}

URLInputs ==
    {[fn |-> f, arg |-> raw, done |-> FALSE]
       : f \in {"canonicalSceneURL", "looksLikeSceneURL"}, raw \in RawURLs}

\* canonicalSceneURL applied to a text, and to what it returned.
ApplyCanonicalSceneURL ==
    /\ probe.fn = "canonicalSceneURL" /\ ~probe.done
    /\ probe' = [fn |-> probe.fn, arg |-> probe.arg, done |-> TRUE,
                 out |-> canonicalSceneURL(probe.arg),
                 again |-> canonicalSceneURL(canonicalSceneURL(probe.arg))]
    /\ UNCHANGED <<dbVars, callVars, batchVars, lockVars>>

ApplyLooksLikeSceneURL ==
    /\ probe.fn = "looksLikeSceneURL" /\ ~probe.done
    /\ probe' = [fn |-> probe.fn, arg |-> probe.arg, done |-> TRUE,
                 out |-> looksLikeSceneURL(probe.arg)]
    /\ UNCHANGED <<dbVars, callVars, batchVars, lockVars>>

\* The elements of a search page: links, cards and ld+json objects with
\* an href (or url), a title (or name), the alt text of the image and its
\* source.
Element(href, title, alt) == [href |-> href, title |-> title, alt |-> alt, thumb |-> <<"/", "t.jpg">>]

VideoX == <<"/", "video", "/", "x">>
VideoXSlashes == <<"/", "video", "/", "x", "/", "/">>
VideoY == <<"/", "video", "/", "y", "?", "s=q">>
TagVideo == <<"/", "tag", "/", "video", "/", "x">>

LinkElements ==
    {Element(h, <<" ", "aa">>, <<>>) : h \in {VideoX, VideoXSlashes, VideoY, TagVideo}}
        \cup {Element(VideoX, <<>>, <<"bb">>), Element(VideoY, <<" ">>, <<>>)}

CardElements ==
    {Element(VideoXSlashes, <<"aa">>, <<>>), Element(VideoY, <<"cc">>, <<>>),
     Element(VideoX, <<>>, <<>>)}

Documents ==
    {[links |-> l, containers |-> <<a, b>>, scripts |-> sc]
       : l \in SeqsUpTo(LinkElements, MaxLinks),
         a \in SeqsUpTo(CardElements, 1),
         b \in {<<>>, <<Element(VideoXSlashes, <<"aa">>, <<>>)>>},
         sc \in {<<>>, << <<Element(VideoX, <<>>, <<>>), Element(VideoXSlashes, <<"dd">>, <<>>)>> >>,
                  << <<Element(VideoY, <<"dd">>, <<>>)>>, <<Element(VideoX, <<"dd">>, <<>>)>> >>}}

ParserInputs ==
    {[fn |-> "ParsePMVHavenSearchHTML", arg |-> [doc |-> d, limit |-> l], done |-> FALSE]
       : d \in Documents, l \in 0..MaxLimit}

ApplyParsePMVHavenSearchHTML ==
    /\ probe.fn = "ParsePMVHavenSearchHTML" /\ ~probe.done
    /\ probe' = [fn |-> probe.fn, arg |-> probe.arg, done |-> TRUE,
                 out |-> ParsePMVHavenSearchHTML(probe.arg.doc, probe.arg.limit)]
    /\ UNCHANGED <<dbVars, callVars, batchVars, lockVars>>

\* Candidate lists for the ranking: two candidates for each title, told
\* apart by id and detail URL.
RankCandidates ==
    {[ID |-> id, Title |-> t, SceneURL |-> id, ThumbnailURL |-> ""]
       : id \in {"p", "q"}, t \in {<<"aa", "bb">>, <<"bb", "cc">>, <<"bb", "dd">>}}

RankInputs ==
    {[fn |-> "rankCandidates", arg |-> [query |-> q, candidates |-> l], done |-> FALSE]
       : q \in {<<>>, <<"bb">>, <<"aa", "bb">>}, l \in SeqsUpTo(RankCandidates, MaxRanked)}

\* The ranking of MatchPMVFile applied to a query and a candidate list.
ApplyRankCandidates ==
    /\ probe.fn = "rankCandidates" /\ ~probe.done
    /\ probe' = [fn |-> probe.fn, arg |-> probe.arg, done |-> TRUE,
                 out |-> rankCandidates(probe.arg.query, probe.arg.candidates)]
    /\ UNCHANGED <<dbVars, callVars, batchVars, lockVars>>

\* Batch requests with limits and concurrencies below, at and above the
\* defaults and the caps.
BatchParamInputs ==
    {[fn |-> "MatchPMVUnmatchedFiles", done |-> FALSE,
      arg |-> [DryRun |-> TRUE, Limit |-> l, Concurrency |-> c, VolumeID |-> v]]
       : l \in {-1, 0, 1, 2, 50, 500, 501, 1000},
         c \in {-1, 0, 1, 10, 50, 51, 1000}, v \in {0, 1}}

\* MatchPMVUnmatchedFiles up to the selection of the files.
ApplyBatchParams ==
    /\ probe.fn = "MatchPMVUnmatchedFiles" /\ ~probe.done
    /\ probe' = [fn |-> probe.fn, arg |-> probe.arg, done |-> TRUE,
                 out |-> [limit |-> normalizePMVBatchLimit(probe.arg.Limit),
                          concurrency |-> normalizePMVBatchConcurrency(probe.arg.Concurrency),
                          Scanned |-> Len(selectFiles(files, probe.arg,
                                              normalizePMVBatchLimit(probe.arg.Limit)))]]
    /\ UNCHANGED <<dbVars, callVars, batchVars, lockVars>>

\* Filenames of one or two segments of up to MaxTokens tokens (a word, a skip
\* token, a run of punctuation, an apostrophe), and filenames that end in an
\* exporter suffix: after a word, after a separator character, after the
\* channel separator, or as the whole name.
NameSegments == SeqsUpTo({"aa", "4k", "!!", "'"}, MaxTokens)

ExportSuffix == <<"1700000000000", "abcdef12">>

ExportedNames ==
    {<<left \o ExportSuffix>> : left \in {<<>>, <<"_">>, <<"aa">>, <<"aa", "-">>}}
      \cup {<<left, sep \o ExportSuffix>> : left \in {<<>>, <<"ch">>}, sep \in {<<>>, <<"_">>}}

FilenameInputs ==
    {[fn |-> "normalizePMVQuery", arg |-> f, done |-> FALSE]
       : f \in {<<a>> : a \in NameSegments}
                 \cup {<<a, b>> : a, b \in NameSegments} \cup ExportedNames}

\* normalizePMVQuery applied to a filename.
ApplyNormalizePMVQuery ==
    /\ probe.fn = "normalizePMVQuery" /\ ~probe.done
    /\ probe' = [fn |-> probe.fn, arg |-> probe.arg, done |-> TRUE,
                 out |-> normalizePMVQuery(probe.arg)]
    /\ UNCHANGED <<dbVars, callVars, batchVars, lockVars>>

\* What MatchPMVFile holds after a search that answered with the page doc:
\* the candidates of SearchPMVHaven, and then its enrichment loop over them
\* when the site answers e to every request of a detail page. The request
\* is made to canonicalSceneURL(c.SceneURL).
searchedCandidates(doc) ==
    SearchPMVHaven(<<[fail |-> FALSE, err |-> NoErr,
                      parsed |-> ParsePMVHavenSearchHTML(doc, pmvMatchCandidateLimit)]>>,
                   pmvMatchCandidateLimit).candidates

enrichCandidates(candidates, e) ==
    enrichLoop([u \in {candidates[i].SceneURL : i \in DOMAIN candidates} |-> e], 1,
               [candidates |-> candidates, thumbCache |-> [u \in {} |-> ""], fetched |-> <<>>])

enrichOutcome(candidates, en) ==
    [searched |-> candidates, thumbCache |-> en.thumbCache,
     requested |-> [k \in DOMAIN en.fetched |-> canonicalSceneURL(en.fetched[k])]]

\* Search pages of up to MaxLinks links, and every answer to the requests.
EnrichInputs ==
    {[fn |-> "enrich", done |-> FALSE,
      arg |-> [doc |-> [links |-> l, containers |-> <<<<>>, <<>>>>, scripts |-> <<>>],
               answer |-> e]]
       : l \in SeqsUpTo(LinkElements, MaxLinks), e \in EnrichFetches}

ApplyEnrich ==
    /\ probe.fn = "enrich" /\ ~probe.done
    /\ probe' = [fn |-> probe.fn, arg |-> probe.arg, done |-> TRUE,
                 out |-> enrichOutcome(searchedCandidates(probe.arg.doc),
                                       enrichCandidates(searchedCandidates(probe.arg.doc),
                                                        probe.arg.answer))]
    /\ UNCHANGED <<dbVars, callVars, batchVars, lockVars>>

InitFn ==
    /\ StoreOff /\ InitCall /\ calls = 0 /\ BatchOff /\ LockOff
    /\ probe \in SearchInputs \cup URLInputs \cup ParserInputs \cup RankInputs
                   \cup BatchParamInputs \cup FilenameInputs \cup EnrichInputs

NextFn ==
    \/ ApplySearchPMVHaven
    \/ ApplyCanonicalSceneURL
    \/ ApplyLooksLikeSceneURL
    \/ ApplyParsePMVHavenSearchHTML
    \/ ApplyRankCandidates
    \/ ApplyBatchParams
    \/ ApplyNormalizePMVQuery
    \/ ApplyEnrich

SpecFn == InitFn /\ [][NextFn]_vars

\* ------------------------------------------------------------------ claims
\* C1: when MatchPMVUnmatchedFiles returns, Results has exactly one item per
\* selected file and Results[i] is the outcome of matching the i-th selected
\* file (its FileID and Filename are those of files[i]), whatever order the
\* workers complete in; while results are being collected, a slot is still
\* the zero item or already holds the outcome of its own file.
BatchResultOrder ==
    /\ bpc \in {"collect", "done"} =>
           /\ Len(batchOut.Results) = Len(bfiles)
           /\ \A i \in DOMAIN bfiles :
                  \/ bpc = "collect" /\ batchOut.Results[i] = ZeroItem
                  \/ /\ batchOut.Results[i].FileID = bfiles[i].ID
                     /\ batchOut.Results[i].Filename = bfiles[i].Filename
    /\ bpc = "done" => \A i \in DOMAIN bfiles : batchOut.Results[i] # ZeroItem

\* A run over two files has returned, both files were linked by it, and the
\* second selected file was linked (its worker completed) before the first.
BatchResultOrderWitness ==
    /\ bpc = "done" /\ Len(bfiles) = 2 /\ call.pc = "idle"
    /\ files[bfiles[2].ID].SceneID > 1
    /\ files[bfiles[1].ID].SceneID > files[bfiles[2].ID].SceneID
    /\ batchOut.Results[1].FileID = bfiles[1].ID

\* C2: no two batch runs ever execute concurrently: of the triggers that
\* came through the background task and through the synchronous endpoint,
\* at most one is inside MatchPMVUnmatchedFiles at any time.
NoConcurrentBatchRuns ==
    Cardinality({t \in Triggers : trig[t].pc = "run"}) <= 1

\* C3: RunPMVMatchUnmatchedTask entered while the "pmv-match" lock is held
\* is a no-op: it selects no files, runs no match, writes nothing to the
\* store, leaves the lock held, and never runs later.
LockedRunIsNoOp ==
    [][\A t \in Triggers :
        /\ (trig[t].pc = "check" /\ lock /\ trig'[t] # trig[t]) =>
               /\ trig'[t].pc = "skipped"
               /\ trig'[t].sel = <<>> /\ trig'[t].todo = {}
               /\ lock' = lock
               /\ UNCHANGED dbVars
        /\ (trig[t].pc = "skipped" => trig'[t] = trig[t])]_vars

\* A background run was skipped while another background run, which holds
\* the lock, is inside MatchPMVUnmatchedFiles with files left to match.
LockedRunIsNoOpWitness ==
    \E t, u \in Triggers :
        /\ trig[t].pc = "skipped" /\ trig[t].kind = "task"
        /\ trig[u].pc = "run" /\ trig[u].kind = "task" /\ trig[u].todo # {}
        /\ lock

\* C4: MatchPMVFile called with dryRun = true, by the single-file endpoint or
\* by the workers of a dry-run batch, leaves the file registry and the
\* catalog unchanged at every step it takes.
DryRunLeavesStoreUnchanged ==
    [][/\ (call' # call /\ call'.dryRun) => UNCHANGED dbVars
       /\ (req.DryRun /\ wk' # wk) => UNCHANGED dbVars]_vars

\* A dry-run batch over two files has returned with candidates for both, a
\* dry-run single-file call found candidates too, and no file is linked and
\* no catalog entry was created.
DryRunLeavesStoreUnchangedWitness ==
    /\ bpc = "done" /\ req.DryRun /\ Len(bfiles) = 2
    /\ \A i \in DOMAIN bfiles :
           /\ batchOut.Results[i].Result # Nil
           /\ batchOut.Results[i].Result.Candidates # <<>>
    /\ call.pc = "done" /\ call.dryRun /\ call.Result # Nil
    /\ \A id \in DOMAIN files : files[id].SceneID = 0
    /\ DOMAIN scenes = {OtherScene}

\* C5 as stated: for the same file and the same answers of the site, the
\* non-dry-run call returns what the dry-run call returns, but for the
\* autolinked flag and the message.
DryRunSameData ==
    (call.pc = "done" /\ ~call.dryRun /\ twin.Result # Nil) =>
        /\ call.Result # Nil
        /\ [call.Result EXCEPT !.Autolinked = FALSE, !.Message = ""]
               = [twin.Result EXCEPT !.Message = ""]

\* C5, amended: a non-dry-run call that returns a result returns the query,
\* the ranked candidates and the matched catalog identifier (and every other
\* field but the autolinked flag and the message) that the dry-run call on
\* the same file and answers returns, after the same requests to the site;
\* a non-dry-run call that returns no result failed as the dry-run call
\* does, or failed to persist (500).
DryRunSameDataWhenPersisted ==
    /\ (call.pc = "done" /\ ~call.dryRun /\ call.Result # Nil) =>
           /\ twin.Result # Nil
           /\ twin.StatusCode = call.StatusCode
           /\ [call.Result EXCEPT !.Autolinked = FALSE, !.Message = ""]
                  = [twin.Result EXCEPT !.Message = ""]
           /\ twin.searched = call.searched /\ twin.fetched = call.fetched
    /\ (call.pc = "done" /\ ~call.dryRun /\ call.Result = Nil) =>
           \/ twin.Result = Nil /\ twin.StatusCode = call.StatusCode /\ twin.Err = call.Err
           \/ twin.Result # Nil /\ call.StatusCode = 500

\* A non-dry-run call linked its file to the top of two ranked candidates
\* found by a fallback variant of the query.
DryRunSameDataWhenPersistedWitness ==
    /\ call.pc = "done" /\ ~call.dryRun /\ call.Result # Nil
    /\ call.Result.Autolinked /\ Len(call.Result.Candidates) = 2
    /\ call.Result.Query # call.searchQueries[1]
    /\ files[call.fileID].SceneID # 0

\* C6: in the BatchResult every selected file is in exactly one class:
\* matched (autolinked), skippedAlreadyMatched (error with status 409),
\* errors (any other failure) or successful without autolink (not counted);
\* the counters are the sizes of the first three classes, the four sizes sum
\* to scanned, and scanned is the number of result items.
BatchCountersPartition ==
    bpc = "done" =>
        LET items == batchOut.Results
            matched == {i \in DOMAIN items : items[i].Error = NoErr /\ items[i].Result # Nil
                                               /\ items[i].Result.Autolinked}
            skipped == {i \in DOMAIN items : items[i].Error # NoErr /\ items[i].StatusCode = 409}
            errors == {i \in DOMAIN items : items[i].Error # NoErr /\ items[i].StatusCode # 409}
            plain == {i \in DOMAIN items : items[i].Error = NoErr /\ items[i].Result # Nil
                                             /\ ~items[i].Result.Autolinked}
        IN  /\ batchOut.Matched = Cardinality(matched)
            /\ batchOut.SkippedAlreadyMatch = Cardinality(skipped)
            /\ batchOut.Errors = Cardinality(errors)
            /\ batchOut.Matched + batchOut.SkippedAlreadyMatch + batchOut.Errors
                   + Cardinality(plain) = batchOut.Scanned
            /\ batchOut.Scanned = Len(items)
            /\ batchOut.Scanned = Len(bfiles)
            /\ matched \cup skipped \cup errors \cup plain = DOMAIN items

\* A run over two files has returned: one was linked by it, the other had
\* been linked by a single-file call after the selection (409).
BatchCountersPartitionWitness ==
    /\ bpc = "done" /\ batchOut.Scanned = 2
    /\ batchOut.Matched = 1 /\ batchOut.SkippedAlreadyMatch = 1

\* C7: a non-dry-run MatchPMVFile links the file only when the confidence of
\* the top-ranked candidate is at least the autolink threshold.
AutolinkGatedByThreshold ==
    (call.pc = "done" /\ ~call.dryRun /\ call.Result # Nil /\ call.Result.Autolinked) =>
        call.Result.Candidates[1].Confidence >= pmvAutoLinkThreshold

\* C8: a zero file id yields 400, an unknown file id 404 and a file already
\* linked to a catalog entry 409; in all three cases MatchPMVFile returns no
\* result, issues no search or detail request and leaves the store unchanged.
ValidationRejects ==
    [][(call.pc = "idle" /\ call'.pc # "idle") =>
        /\ call'.fileID = 0 => call'.StatusCode = 400
        /\ (call'.fileID # 0 /\ call'.fileID \notin DOMAIN files) => call'.StatusCode = 404
        /\ (call'.fileID \in DOMAIN files /\ files[call'.fileID].SceneID # 0) =>
               call'.StatusCode = 409
        /\ (\/ call'.fileID \notin DOMAIN files
            \/ files[call'.fileID].SceneID # 0) =>
               /\ call'.pc = "done" /\ call'.Result = Nil /\ call'.Err # NoErr
               /\ call'.searched = <<>> /\ call'.fetched = <<>>
               /\ UNCHANGED dbVars]_vars

\* A call for a file that is already linked was answered 409 although the
\* site would have answered its searches with candidates.
ValidationRejectsWitness ==
    /\ call.pc = "done" /\ call.StatusCode = 409
    /\ call.fileID \in DOMAIN files /\ files[call.fileID].SceneID # 0
    /\ \E i \in DOMAIN site.sr : site.sr[i][1].parsed # <<>>

\* The site answers variant i of the current call with at least one candidate.
variantHit(i) ==
    \E k \in DOMAIN site.sr[i] : ~site.sr[i][k].fail /\ site.sr[i][k].parsed # <<>>

\* C9: the variants are searched in the order of the expansion list,
\* starting with the base query; the first variant that returns a candidate
\* ends the search, and the query of the result is that variant.
SearchOrder ==
    (call.pc \in {"done", "persist"} /\ call.searchQueries # <<>>) =>
        /\ Len(call.searched) \in 1..Len(call.searchQueries)
        /\ call.searched = SubSeq(call.searchQueries, 1, Len(call.searched))
        /\ call.searchQueries[1] = normalizePMVQuery(call.file.Filename)
        /\ \A i \in 1..(Len(call.searched) - 1) : ~variantHit(i)
        /\ Len(call.searched) < Len(call.searchQueries) => variantHit(Len(call.searched))
        /\ (variantHit(Len(call.searched)) /\ call.Result # Nil) =>
               /\ call.Result.Query = call.searchQueries[Len(call.searched)]
               /\ call.Result.Candidates # <<>>

\* Of three variants the first found nothing, the second found candidates
\* and is the query of the result; the third was not searched.
SearchOrderWitness ==
    /\ call.pc = "done" /\ call.Result # Nil
    /\ Len(call.searchQueries) = 3 /\ Len(call.searched) = 2
    /\ call.Result.Query = call.searchQueries[2]
    /\ call.Result.Query # call.searchQueries[1]

\* Every search request of the answers sr fails.
allFail(sr) == \A i \in DOMAIN sr : \A k \in DOMAIN sr[i] : sr[i][k].fail

\* Every search request of the answers sr succeeds and finds nothing.
allEmpty(sr) ==
    \A i \in DOMAIN sr : \A k \in DOMAIN sr[i] : ~sr[i][k].fail /\ sr[i][k].parsed = <<>>

NoPartialApply ==
    \A id \in DOMAIN files :
        /\ buildPMVCustomSceneID(id) \in DOMAIN scenes =>
               files[id].SceneID = scenes[buildPMVCustomSceneID(id)].ID
        /\ files[id].SceneID # 0 =>
               \E k \in DOMAIN scenes : scenes[k].ID = files[id].SceneID

\* C12: the failure of one file inside a batch affects only the item of
\* that file: the batch returns one item per selected file, each with the
\* status of its own match, an error or a result, and a file reported as
\* linked is linked.
BatchIsolatesFailures ==
    bpc = "done" =>
        /\ batchOut.Scanned = Len(bfiles)
        /\ DOMAIN batchOut.Results = DOMAIN bfiles
        /\ \A i \in DOMAIN bfiles :
               /\ batchOut.Results[i].FileID = bfiles[i].ID
               /\ batchOut.Results[i].StatusCode \in {200, 400, 404, 409, 424, 500}
               /\ (batchOut.Results[i].Error = NoErr) <=> (batchOut.Results[i].Result # Nil)
               /\ batchOut.Results[i].Error = NoErr => batchOut.Results[i].StatusCode = 200
               /\ (batchOut.Results[i].Result # Nil /\ batchOut.Results[i].Result.Autolinked) =>
                      files[bfiles[i].ID].SceneID # 0

\* A run of one worker over two files has returned: the store failed for the
\* first file (500) and the second file, matched after it, was linked.
BatchIsolatesFailuresWitness ==
    /\ bpc = "done" /\ req.Concurrency = 1 /\ Len(bfiles) = 2
    /\ batchOut.Results[1].StatusCode = 500 /\ batchOut.Results[1].Error # NoErr
    /\ batchOut.Results[2].Result # Nil /\ batchOut.Results[2].Result.Autolinked
    /\ batchOut.Errors = 1 /\ batchOut.Matched = 1

\* C13: SearchPMVHaven returns an error exactly when no search URL gave a
\* candidate and at least one of them failed, and the error is that of the
\* last failure; when some URL gave a candidate it returns, with no error,
\* between one and limit candidates, no two with the same detail URL, each
\* the first listing of its URL in the pages read; with no candidate and
\* no failure it returns the empty list and no error.
SearchPMVHavenContract ==
    (probe.fn = "SearchPMVHaven" /\ probe.done) =>
        LET f == probe.arg.fetches
            r == probe.out
            found == \E i \in DOMAIN f : ~f[i].fail /\ f[i].parsed # <<>>
            failed == {i \in DOMAIN f : f[i].fail}
            first(u) == CHOOSE i \in DOMAIN f :
                            /\ \E j \in DOMAIN f[i].parsed : f[i].parsed[j].SceneURL = u
                            /\ \A h \in 1..(i - 1) :
                                   \A j \in DOMAIN f[h].parsed : f[h].parsed[j].SceneURL # u
        IN  /\ (r.err # NoErr) <=> (~found /\ failed # {})
            /\ r.err # NoErr =>
                   /\ r.candidates = <<>>
                   /\ \E i \in failed : r.err = f[i].err /\ \A h \in failed : h <= i
            /\ found =>
                   /\ Len(r.candidates) \in 1..probe.arg.limit
                   /\ \A k, m \in DOMAIN r.candidates :
                          r.candidates[k].SceneURL = r.candidates[m].SceneURL => k = m
                   /\ \A k \in DOMAIN r.candidates :
                          \E j \in DOMAIN f[first(r.candidates[k].SceneURL)].parsed :
                              f[first(r.candidates[k].SceneURL)].parsed[j] = r.candidates[k]
            /\ (~found /\ failed = {}) => r.candidates = <<>>

\* The first search URL listed "u1", the second listed "u1" again and "u2":
\* both were merged, and the first listing of "u1" is the one returned.
SearchPMVHavenContractWitness ==
    /\ probe.fn = "SearchPMVHaven" /\ probe.done
    /\ probe.arg.limit = 2 /\ Len(probe.arg.fetches) = 2
    /\ probe.arg.fetches[1].parsed = <<CandA>>
    /\ probe.arg.fetches[2].parsed = <<CandA2, CandB>>
    /\ probe.out = [candidates |-> <<CandA, CandB>>, err |-> NoErr]

\* C14: for every document and every maxCount > 0, ParsePMVHavenSearchHTML
\* returns at most maxCount candidates, no two of them with the same
\* canonical detail URL, each with a non-empty trimmed title and a
\* non-empty detail URL.
ParserContract ==
    (probe.fn = "ParsePMVHavenSearchHTML" /\ probe.done /\ probe.arg.limit > 0) =>
        /\ Len(probe.out) <= probe.arg.limit
        /\ \A i, j \in DOMAIN probe.out :
               canonicalSceneURL(probe.out[i].SceneURL) = canonicalSceneURL(probe.out[j].SceneURL)
                   => i = j
        /\ \A i \in DOMAIN probe.out :
               /\ probe.out[i].Title # <<>>
               /\ TrimSpace(probe.out[i].Title) = probe.out[i].Title
               /\ probe.out[i].SceneURL # <<>>

\* C15: a URL that looksLikeSceneURL accepts has, once resolved against
\* the base URL, the host of the site, a path that is not empty after its
\* slashes are trimmed, and none of the blocked forms in that path (tag,
\* category, author, pagination, asset, feed; the search query "?s=" of
\* the site root has an empty path).
AcceptedSceneURLIsOnSite ==
    (probe.fn = "looksLikeSceneURL" /\ probe.done /\ probe.out) =>
        /\ ~urlParseFails(absoluteURL(probe.arg))
        /\ ToLower(urlParse(absoluteURL(probe.arg)).Host) = <<"pmvhaven.com">>
        /\ Trim(urlParse(absoluteURL(probe.arg)).Path, {"/"}) # <<>>
        /\ ~containsBlocked(ToLower(urlParse(absoluteURL(probe.arg)).Path))

\* C16: canonicalSceneURL is idempotent, and what it returns has no
\* fragment, no query string and no trailing slash.
CanonicalSceneURLIdempotent ==
    (probe.fn = "canonicalSceneURL" /\ probe.done) =>
        /\ probe.again = probe.out
        /\ "#" \notin Range(probe.out)
        /\ cutAfter(probe.out, "?") = <<>>
        /\ probe.out # <<>> => probe.out[Len(probe.out)] # "/"

\* C17: when the fetch of a candidate's detail page fails (or its URL is
\* invalid), EnrichPMVHavenCandidateThumbnail returns the candidate as it
\* was, with an error, and MatchPMVFile goes on: the candidate stays in
\* the list with the id, title and thumbnail the search gave it, every
\* candidate found is ranked, and the call does not fail.
EnrichFailureNonFatal ==
    [][(/\ call.pc = "idle" /\ call'.pc # "idle"
        /\ call'.searched # <<>> /\ site'.sr[Len(call'.searched)][1].parsed # <<>>) =>
           /\ call'.Result # Nil /\ call'.Err = NoErr /\ call'.StatusCode \in {0, 200}
           /\ Len(call'.Result.Candidates) = Len(site'.sr[Len(call'.searched)][1].parsed)
           /\ \A c \in Range(site'.sr[Len(call'.searched)][1].parsed) :
                  /\ site'.er[c.SceneURL].fail =>
                         /\ EnrichPMVHavenCandidateThumbnail(c, site'.er[c.SceneURL]).candidate = c
                         /\ EnrichPMVHavenCandidateThumbnail(c, site'.er[c.SceneURL]).err # NoErr
                         /\ \E k \in DOMAIN call'.Result.Candidates :
                                /\ call'.Result.Candidates[k].SceneURL = c.SceneURL
                                /\ call'.Result.Candidates[k].PMVID = c.ID
                                /\ call'.Result.Candidates[k].Title = c.Title
                                /\ call'.Result.Candidates[k].ThumbnailURL = c.ThumbnailURL
                  /\ \A f \in EnrichFetches :
                         EnrichPMVHavenCandidateThumbnail([c EXCEPT !.SceneURL = ""], f)
                             = [candidate |-> [c EXCEPT !.SceneURL = ""],
                                err |-> "invalid scene url"]]_vars

\* The detail page of "u2" failed and that of "u1" gave a thumbnail and a
\* title: both candidates are ranked, "u2" with what the search gave it.
EnrichFailureNonFatalWitness ==
    /\ call.pc = "done" /\ call.Result # Nil /\ call.StatusCode = 200
    /\ call.fetched = <<"u2", "u1">>
    /\ site.er["u2"].fail /\ ~site.er["u1"].fail /\ site.er["u1"].thumb = "t9"
    /\ \E k \in DOMAIN call.Result.Candidates :
           /\ call.Result.Candidates[k].SceneURL = "u2"
           /\ call.Result.Candidates[k].Title = CandB.Title
           /\ call.Result.Candidates[k].ThumbnailURL = CandB.ThumbnailURL
    /\ \E k \in DOMAIN call.Result.Candidates :
           /\ call.Result.Candidates[k].SceneURL = "u1"
           /\ call.Result.Candidates[k].ThumbnailURL = "t9"

\* C18: in a ranked candidate list, of two entries the earlier one has the
\* higher confidence, or the same confidence and a title that is not
\* greater; the rank of an entry is its position, and every candidate of
\* the input is ranked.
RankingOrder ==
    (probe.fn = "rankCandidates" /\ probe.done) =>
        /\ Len(probe.out) = Len(probe.arg.candidates)
        /\ \A i \in DOMAIN probe.out : probe.out[i].Rank = i
        /\ \A i, j \in DOMAIN probe.out :
               i < j =>
                   \/ probe.out[i].Confidence > probe.out[j].Confidence
                   \/ /\ probe.out[i].Confidence = probe.out[j].Confidence
                      /\ ~TitleLess(probe.out[j].Title, probe.out[i].Title)

\* Two candidates of equal confidence, given with the greater title first,
\* are ranked with the smaller title first, behind a more confident one.
RankingOrderWitness ==
    /\ probe.fn = "rankCandidates" /\ probe.done /\ Len(probe.out) = 3
    /\ probe.arg.candidates[1].Title = <<"bb", "dd">>
    /\ probe.arg.candidates[2].Title = <<"bb", "cc">>
    /\ probe.arg.candidates[3].Title = <<"aa", "bb">>
    /\ probe.out[1].Title = <<"aa", "bb">>
    /\ probe.out[2].Title = <<"bb", "cc">> /\ probe.out[3].Title = <<"bb", "dd">>
    /\ probe.out[1].Confidence > probe.out[2].Confidence
    /\ probe.out[2].Confidence = probe.out[3].Confidence

BatchParamsNormalized ==
    (probe.fn = "MatchPMVUnmatchedFiles" /\ probe.done) =>
        /\ probe.arg.Limit <= 0 => probe.out.limit = 50
        /\ probe.arg.Limit > 500 => probe.out.limit = 500
        /\ probe.arg.Limit \in 1..500 => probe.out.limit = probe.arg.Limit
        /\ probe.arg.Concurrency <= 0 => probe.out.concurrency = 10
        /\ probe.arg.Concurrency > 50 => probe.out.concurrency = 50
        /\ probe.arg.Concurrency \in 1..50 => probe.out.concurrency = probe.arg.Concurrency
        /\ probe.out.limit \in 1..500
        /\ probe.out.concurrency \in 1..50
        /\ probe.out.Scanned <= probe.out.limit

\* A request with limit 1 and concurrency 51 on a library with two
\* unmatched files: one file is scanned, with 50 workers at most.
BatchParamsNormalizedWitness ==
    /\ probe.fn = "MatchPMVUnmatchedFiles" /\ probe.done
    /\ probe.arg.Limit = 1 /\ probe.arg.Concurrency = 51 /\ probe.arg.VolumeID = 0
    /\ Cardinality({id \in DOMAIN files : files[id].SceneID = 0}) >= 2
    /\ probe.out = [limit |-> 1, concurrency |-> 50, Scanned |-> 1]
\* The name has a letter or a digit.
hasAlphanumeric(filename) ==
    \E t \in Range(Flatten(filename)) : t \notin Symbols \cup {"'"}

\* C21: normalizePMVQuery returns the empty query only for a filename that,
\* its extension stripped, has no alphanumeric content at all (so that
\* MatchPMVFile answers "could not build a query from filename" only for
\* such filenames).
EmptyQueryOnlyWithoutAlphanumerics ==
    (probe.fn = "normalizePMVQuery" /\ probe.done /\ probe.out = <<>>)
        => ~hasAlphanumeric(probe.arg)

\* What MatchPMVUnmatchedFiles has done when it returns.
BatchReturned ==
    /\ bpc = "done"
    /\ results = <<>>
    /\ \A w \in Workers : wk[w].pc \in {"off", "exited"}
    /\ bfiles # <<>> => feeder.jobsClosed /\ feeder.resultsClosed
    /\ \A i \in DOMAIN bfiles : batchOut.Results[i] # ZeroItem

\* C22: every batch run terminates: whatever the number of selected files
\* and the effective concurrency, the feeder, the workers and the collector
\* finish, and MatchPMVUnmatchedFiles returns, with every result slot filled
\* by then.
BatchTerminates == <>BatchReturned /\ [](bpc = "done" => BatchReturned)

\* A run of two files on one worker has returned.
BatchTerminatesWitness ==
    /\ BatchReturned
    /\ Len(bfiles) = 2
    /\ Cardinality({w \in Workers : wk[w].pc = "exited"}) = 1

\* The workers that were started, those inside MatchPMVFile, and the
\* number the claim gives.
StartedWorkers == {w \in Workers : wk[w].pc # "off"}

InFlight == {w \in Workers : wk[w].pc \in {"match", "persist"}}

EffectiveWorkers ==
    IF normalizePMVBatchConcurrency(req.Concurrency) < Len(bfiles)
    THEN normalizePMVBatchConcurrency(req.Concurrency) ELSE Len(bfiles)

\* C23: a batch run starts exactly min(effective concurrency, number of
\* selected files) workers, and never has more than that many per-file
\* matches in flight.
WorkerCount ==
    bpc \in {"collect", "done"} =>
        /\ Cardinality(StartedWorkers) = EffectiveWorkers
        /\ Cardinality(InFlight) <= EffectiveWorkers

\* Two files were selected with concurrency 1: the only worker is matching
\* the first while the second waits in the feeder.
WorkerCountWitness ==
    /\ bpc = "collect" /\ Len(bfiles) = 2 /\ EffectiveWorkers = 1
    /\ Cardinality(InFlight) = 1 /\ feeder.i = 2

\* Where job i is: with a worker, on the results channel, in its slot.
Owners(i) == {w \in Workers : wk[w].pc \in {"match", "persist"} /\ wk[w].Index = i}

Queued(i) == {k \in DOMAIN results : results[k].Index = i}

Written(i) == IF batchOut.Results[i] # ZeroItem THEN 1 ELSE 0

\* C24: within a batch run every selected file is taken from the job queue
\* by exactly one worker and matched once, and every result slot is written
\* once: a job that has left the feeder is at exactly one place (with one
\* worker, as one item on the results channel, or in its slot), a job still
\* with the feeder is at none, and no two workers own the same index.
EachJobOnce ==
    bpc \in {"collect", "done"} =>
        \A i \in DOMAIN bfiles :
            /\ Cardinality(Owners(i)) + Cardinality(Queued(i)) + Written(i)
                  = (IF i < feeder.i THEN 1 ELSE 0)
            /\ Written(i) = 1 => batchOut.Results[i].FileID = bfiles[i].ID

\* Two workers are matching the two selected files at the same time.
EachJobOnceWitness ==
    /\ bpc = "collect" /\ Len(bfiles) = 2
    /\ \E w1, w2 \in Workers : w1 # w2 /\ Owners(1) = {w1} /\ Owners(2) = {w2}

\* Background run t is between its CreateLock and its RemoveLock.
Holds(t) == trig[t].kind = "task" /\ trig[t].pc \in {"enter", "run", "remove"}

\* C25: the run lock starts unlocked; every RunPMVMatchUnmatchedTask
\* invocation that acquired it releases it in the end, whether its batch
\* completed or failed; the lock is never held without such an invocation
\* under way, so that an invocation is skipped as already running only
\* while another one holds the lock.
LockReleased ==
    /\ ~lock
    /\ \A t \in Triggers : Holds(t) ~> (trig[t].pc = "done")
    /\ [](lock => \E t \in Triggers : Holds(t))
    /\ [][\A t \in Triggers :
             (trig[t].pc = "check" /\ trig'[t].pc = "skipped")
                 => \E u \in Triggers \ {t} : Holds(u)]_vars

\* A background run whose batch failed has released the lock, and the next
\* background run found it free.
LockReleasedWitness ==
    /\ MaxTriggers >= 2
    /\ trig[1].kind = "task" /\ trig[1].pc = "done" /\ trig[1].err # NoErr
    /\ trig[2].kind = "task" /\ trig[2].pc = "create"
    /\ ~lock

\* C26: within one MatchPMVFile invocation each distinct canonical detail
\* URL is requested for enrichment at most once, whether the request
\* succeeds or fails, and the thumbnail cache, empty at the start of the
\* invocation, holds nothing but detail URLs of this invocation's candidates.
EnrichOncePerURL ==
    (probe.fn = "enrich" /\ probe.done) =>
        /\ \A i, j \in DOMAIN probe.out.requested :
               i # j => probe.out.requested[i] # probe.out.requested[j]
        /\ DOMAIN probe.out.thumbCache
               \subseteq {probe.out.searched[i].SceneURL : i \in DOMAIN probe.out.searched}

\* What SearchPMVHaven returned for variant i of the current call.
variantErr(i) == SearchPMVHaven(site.sr[i], pmvMatchCandidateLimit).err # NoErr

variantEmpty(i) == SearchPMVHaven(site.sr[i], pmvMatchCandidateLimit).candidates = <<>>

\* C27: MatchPMVFile answers 424 only if the search of every variant it
\* tried returned an error; when the search of at least one variant
\* succeeded and no variant yielded candidates, the outcome is the
\* successful "no candidates" result, wherever the failing variants stand
\* in the list.
UpstreamFailureOnlyWhenAllFail ==
    (call.pc = "done" /\ call.searchQueries # <<>>) =>
        /\ call.StatusCode = 424 => \A i \in DOMAIN call.searched : variantErr(i)
        /\ ((\E i \in DOMAIN call.searched : ~variantErr(i))
               /\ (\A i \in DOMAIN call.searched : variantEmpty(i))) =>
               /\ call.StatusCode = 200 /\ call.Err = NoErr /\ call.Result # Nil
               /\ call.Result.Message = "no PMVHaven candidates found"

\* The candidates of a result as the site listed them, without scores.
asFound(ranked) ==
    [i \in DOMAIN ranked |->
        [ID |-> ranked[i].PMVID, Title |-> ranked[i].Title, SceneURL |-> ranked[i].SceneURL,
         ThumbnailURL |-> ranked[i].ThumbnailURL]]

\* C28: the confidences and the order of the candidates of a result are
\* those of scoring its candidates against the query the result reports,
\* also when a fallback variant produced the candidates.
RankedAgainstReportedQuery ==
    (call.pc \in {"done", "persist"} /\ call.Result # Nil /\ call.Result.Candidates # <<>>) =>
        call.Result.Candidates
            = rankCandidates(call.Result.Query, asFound(call.Result.Candidates))

\* The single-file call, or a batch item, linked file id.
autolinkedCall(id) ==
    call.pc = "done" /\ call.fileID = id /\ call.Result # Nil /\ call.Result.Autolinked

autolinkedItem(item, id) ==
    item.FileID = id /\ item.Result # Nil /\ item.Result.Autolinked

\* C29: of the non-dry-run invocations that match the same file at the same
\* time (a single-file request and a batch worker), at most one persists
\* the link and returns autolinked = true.
OneAutolinkPerFile ==
    \A id \in FileIDs :
        ~ /\ autolinkedCall(id)
          /\ \/ \E k \in DOMAIN results : autolinkedItem(results[k].Item, id)
             \/ \E i \in DOMAIN batchOut.Results : autolinkedItem(batchOut.Results[i], id)

\* The files whose match is about to persist.
Persisting ==
    {wk[w].File.ID : w \in {v \in Workers : wk[v].pc = "persist"}}
        \cup (IF call.pc = "persist" THEN {call.fileID} ELSE {})

====
